---- MODULE Spec2Model ----
(***************************************************************************)
(* note-operator: incremental note diffing (NoteProcessor), the snapshot   *)
(* and timestamp stores, and the pipelines that call them (CronScheduler,  *)
(* ApiServer /api/extract-notes, the GitHub Actions process-notes script). *)
(*                                                                         *)
(* A JavaScript string is a sequence of one-character strings.  An         *)
(* optional value (T | null) is a sequence of length 0 or 1.               *)
(***************************************************************************)
EXTENDS Integers, Sequences, FiniteSets, TLC

VARIABLES diffNote, diffStore, diffOut,
          aggNotes, aggStore, aggCutoff, aggOut,
          mode, now, lastRun, snapshotStore, cloud, committedNotes, pc, run,
          reqs,
          recText, recEngine, recOut

diffVars == <<diffNote, diffStore, diffOut>>
aggVars == <<aggNotes, aggStore, aggCutoff, aggOut>>
concVars == <<reqs>>
recVars == <<recText, recEngine, recOut>>
pipeVars == <<mode, now, lastRun, snapshotStore, cloud, committedNotes, pc, run>>
vars == <<diffNote, diffStore, diffOut, aggNotes, aggStore, aggCutoff, aggOut,
          mode, now, lastRun, snapshotStore, cloud, committedNotes, pc, run,
          reqs, recText, recEngine, recOut>>

(* ---------------------------- bounds ----------------------------------- *)
MaxLen == 3
MaxPrevLen == 3
AggMaxNotes == 2
MaxNotes == 2
MaxTicks == 1
ConcMaxNotes == 1
AggMaxCalls == 2
TickHours == 12

(* ---------------------------- strings ---------------------------------- *)
NL == "\n"
CR == "\r"
SP == " "
Chars == {"a", "b", SP, NL, CR}

Null == <<>>
Some(x) == <<x>>

RECURSIVE StrsOfLen(_)
StrsOfLen(n) ==
  IF n = 0 THEN {<<>>}
  ELSE {Append(s, c) : s \in StrsOfLen(n - 1), c \in Chars}

RECURSIVE StrsUpTo(_)
StrsUpTo(n) == IF n = 0 THEN StrsOfLen(0) ELSE StrsOfLen(n) \cup StrsUpTo(n - 1)

\* String.prototype.trim: the white space characters of the alphabet.
IsWhitespace(c) == c \in {SP, NL, CR, "\t"}

RECURSIVE TrimStart(_)
TrimStart(s) ==
  IF s = <<>> THEN s
  ELSE IF IsWhitespace(Head(s)) THEN TrimStart(Tail(s)) ELSE s

RECURSIVE TrimEnd(_)
TrimEnd(s) ==
  IF s = <<>> THEN s
  ELSE IF IsWhitespace(s[Len(s)]) THEN TrimEnd(SubSeq(s, 1, Len(s) - 1)) ELSE s

trim(s) == TrimEnd(TrimStart(s))

\* One match of /\r?\n/ ends at a "\n"; a "\r" right before it belongs to the
\* separator.
StripCR(line) ==
  IF line # <<>> /\ line[Len(line)] = CR THEN SubSeq(line, 1, Len(line) - 1) ELSE line

\* body.split(/\r?\n/): scan left to right; cur is the piece being collected.
RECURSIVE SplitFrom(_, _, _, _)
SplitFrom(s, i, cur, acc) ==
  IF i > Len(s) THEN Append(acc, cur)
  ELSE IF s[i] = NL THEN SplitFrom(s, i + 1, <<>>, Append(acc, StripCR(cur)))
  ELSE SplitFrom(s, i + 1, Append(cur, s[i]), acc)

split(s) == SplitFrom(s, 1, <<>>, <<>>)

\* lines.join(sep)
RECURSIVE join(_, _)
join(lines, sep) ==
  IF lines = <<>> THEN <<>>
  ELSE IF Len(lines) = 1 THEN lines[1]
  ELSE lines[1] \o sep \o join(Tail(lines), sep)

(* ------------------------- NoteSnapshotStore --------------------------- *)
\* The snapshot file: Null when it does not exist, else
\* Some([lastRun |-> t, notes |-> [names of the snapshots -> NoteSnapshot]]).
Names == {"A", "B"}

\* snapshots.notes is a plain object: besides its own keys, the keys of
\* Object.prototype can be read from it ("constructor" yields a function,
\* "__proto__" the prototype), and assigning to "__proto__" sets the prototype
\* without creating a key.  Two of these keys stand for all of them.
ObjectPrototypeKeys == {"constructor", "__proto__"}

\* What snapshots.notes[key] yields for an inherited key: a truthy value
\* that has no name, body or modificationDate.
Inherited == [inherited |-> TRUE]

\* getNoteSnapshot(noteName): null without a file or when
\* snapshots.notes[noteName] is falsy, else that value.
getNoteSnapshot(store, noteName) ==
  IF store = Null THEN Null
  ELSE IF noteName \in DOMAIN store[1].notes THEN Some(store[1].notes[noteName])
  ELSE IF noteName \in ObjectPrototypeKeys THEN Some(Inherited)
  ELSE Null

(* --------------------- NoteProcessor.extractNewContent ------------------ *)
\* Mutant of previousLinesSet: the lines are added without trimming.
RECURSIVE previousLinesSet_NoTrim(_)
previousLinesSet_NoTrim(previousLines) ==
  IF previousLines = <<>> THEN {}
  ELSE LET rest == previousLinesSet_NoTrim(Tail(previousLines))
       IN IF Len(trim(Head(previousLines))) > 0
          THEN rest \cup {Head(previousLines)} ELSE rest

\* The loop that fills previousLinesSet with the trimmed non-empty lines.
RECURSIVE previousLinesSet(_)
previousLinesSet(previousLines) ==
  IF previousLines = <<>> THEN {}
  ELSE LET normalized == trim(Head(previousLines))
           rest == previousLinesSet(Tail(previousLines))
       IN IF Len(normalized) > 0 THEN rest \cup {normalized} ELSE rest

\* Mutant of IsNewLine: the current line is looked up without trimming.
IsNewLine_NoTrim(line, prevSet) ==
  Len(trim(line)) > 0 /\ line \notin prevSet

\* Mutant of IsNewLine: the test for an empty line is missing.
IsNewLine_KeepBlank(line, prevSet) ==
  trim(line) \notin prevSet

\* The test of the diff loop on one current line.
IsNewLine(line, prevSet) ==
  LET normalized == trim(line)
  IN Len(normalized) > 0 /\ normalized \notin prevSet

\* The diff loop: the current lines that pass the test, pushed in order.
RECURSIVE newLinesLoop(_, _)
newLinesLoop(currentLines, prevSet) ==
  IF currentLines = <<>> THEN <<>>
  ELSE LET line == Head(currentLines)
           rest == newLinesLoop(Tail(currentLines), prevSet)
       IN IF IsNewLine(line, prevSet) THEN <<line>> \o rest ELSE rest

\* newLines of extractNewContent when a previous snapshot exists.
newLinesOf(currentBody, previousBody) ==
  newLinesLoop(split(currentBody), previousLinesSet(split(previousBody)))

\* Mutant of extractNewContent: a missing snapshot is diffed as an empty one.
extractNewContent_DiffAgainstEmpty(currentNote, store) ==
  LET previousSnapshot == getNoteSnapshot(store, currentNote.name)
      previousBody == IF previousSnapshot = Null THEN <<>> ELSE previousSnapshot[1].body
      newLines == newLinesOf(currentNote.body, previousBody)
  IN [firstSight |-> previousSnapshot = Null, threw |-> FALSE,
      newLines |-> newLines, content |-> join(newLines, <<NL>>)]

\* extractNewContent(currentNote): the whole body on first sight, else the new
\* lines joined by "\n".  firstSight and newLines expose the branch taken and
\* the local newLines array that the returned string is joined from.  threw:
\* previousSnapshot.body is undefined and previousBody.length raises a
\* TypeError, so nothing is returned.
extractNewContent(currentNote, store) ==
  LET previousSnapshot == getNoteSnapshot(store, currentNote.name)
  IN IF previousSnapshot = Null
     THEN [firstSight |-> TRUE, threw |-> FALSE, newLines |-> <<>>,
           content |-> currentNote.body]
     ELSE IF "body" \notin DOMAIN previousSnapshot[1]
     THEN [firstSight |-> FALSE, threw |-> TRUE, newLines |-> <<>>,
           content |-> <<>>]
     ELSE LET newLines == newLinesOf(currentNote.body, previousSnapshot[1].body)
          IN [firstSight |-> FALSE, threw |-> FALSE, newLines |-> newLines,
              content |-> join(newLines, <<NL>>)]

(* ----------------------- NoteProcessor.processNotes --------------------- *)
\* The two fixed strings aggregateContent returns in place of a document.
NoNotesMsg == "No notes were modified in the last 24 hours."
NoNewContentMsg == "No new content was added to notes in the last 24 hours."

\* Mutant of isAfterCutoff: a note modified exactly at the cutoff is dropped.
isAfterCutoff_Strict(note, cutoffDate) == note.modificationDate > cutoffDate

\* The filter predicate: note.modificationDate >= cutoffDate.
isAfterCutoff(note, cutoffDate) == note.modificationDate >= cutoffDate

\* allNotes.filter(...), as the positions in allNotes of the notes that are
\* kept, in input order.
RECURSIVE filterFrom(_, _, _)
filterFrom(allNotes, cutoffDate, i) ==
  IF i > Len(allNotes) THEN <<>>
  ELSE IF isAfterCutoff(allNotes[i], cutoffDate)
       THEN <<i>> \o filterFrom(allNotes, cutoffDate, i + 1)
       ELSE filterFrom(allNotes, cutoffDate, i + 1)

\* Mutant of comesBefore: ascending dates (a - b in place of b - a).
comesBefore_Ascending(a, b) == a.modificationDate - b.modificationDate < 0

\* Mutant of comesBefore: ties are reordered (<= 0 in place of < 0).
comesBefore_TiesSwapped(a, b) == b.modificationDate - a.modificationDate <= 0

\* The comparator (a, b) => b.time - a.time is negative: a sorts before b.
comesBefore(a, b) == b.modificationDate - a.modificationDate < 0

\* Array.prototype.sort is stable: position x goes after every position already
\* placed unless its note compares strictly before it.
RECURSIVE insertSorted(_, _, _)
insertSorted(sorted, x, allNotes) ==
  IF sorted = <<>> THEN <<x>>
  ELSE IF comesBefore(allNotes[x], allNotes[Head(sorted)])
       THEN <<x>> \o sorted
       ELSE <<Head(sorted)>> \o insertSorted(Tail(sorted), x, allNotes)

RECURSIVE sortNewestFirst(_, _, _)
sortNewestFirst(positions, allNotes, sorted) ==
  IF positions = <<>> THEN sorted
  ELSE sortNewestFirst(Tail(positions), allNotes,
                       insertSorted(sorted, Head(positions), allNotes))

\* The loop of aggregateContent from index i on: one section per note whose
\* new content is not blank.  A section stands for the text
\* "--- Note <index+1>: <name> (Modified: <date>) ---\n<newContent>\n".
RECURSIVE sectionsFrom(_, _, _)
sectionsFrom(notes, store, i) ==
  IF i > Len(notes) THEN <<>>
  ELSE LET newContent == extractNewContent(notes[i], store).content
           rest == sectionsFrom(notes, store, i + 1)
       IN IF trim(newContent) # <<>>
          THEN <<[index |-> i, name |-> notes[i].name,
                  modificationDate |-> notes[i].modificationDate,
                  newContent |-> newContent]>> \o rest
          ELSE rest

\* Mutant of aggregateContent: the two early returns are missing, so an empty
\* list of sections is joined into the empty string.
aggregateContent_NoSentinel(notes, store) ==
  [sentinel |-> "", sections |-> sectionsFrom(notes, store, 1)]

\* aggregateContent(notes): a sentinel string, or the sections that are joined
\* by "\n\n" into the document (sentinel "" then).
aggregateContent(notes, store) ==
  IF Len(notes) = 0 THEN [sentinel |-> NoNotesMsg, sections |-> <<>>]
  ELSE LET sections == sectionsFrom(notes, store, 1)
       IN IF Len(sections) = 0
          THEN [sentinel |-> NoNewContentMsg, sections |-> <<>>]
          ELSE [sentinel |-> "", sections |-> sections]

\* processNotes(allNotes) once the cutoff date is known: filter, sort, aggregate.
\* order[k] is the position in allNotes of the k-th filtered note.
processNotesWith(allNotes, store, cutoffDate) ==
  LET order == sortNewestFirst(filterFrom(allNotes, cutoffDate, 1), allNotes, <<>>)
      filteredNotes == [k \in 1..Len(order) |-> allNotes[order[k]]]
  IN [notes |-> filteredNotes, order |-> order,
      aggregatedContent |-> aggregateContent(filteredNotes, store),
      cutoffDate |-> cutoffDate]

(* ---------------------------- TimestampStore ---------------------------- *)
DayHours == 24

\* A cutoff that is the last run itself when one is stored.
getCutoffDate_LastRun(lastRunFile, nowDate) ==
  IF lastRunFile = Null THEN nowDate - DayHours ELSE lastRunFile[1]

\* getCutoffDate(): 24 hours before now on a first run, else the later of
\* 24 hours before the last run and 24 hours before now.
getCutoffDate(lastRunFile, nowDate) ==
  LET twentyFourHoursAgo == nowDate - DayHours
  IN IF lastRunFile = Null THEN twentyFourHoursAgo
     ELSE LET cutoffFromLastRun == lastRunFile[1] - DayHours
          IN IF cutoffFromLastRun > twentyFourHoursAgo
             THEN cutoffFromLastRun ELSE twentyFourHoursAgo

(* --------------------- NoteSnapshotStore.saveSnapshots ------------------ *)
\* The loop snapshots.notes[note.name] = note: a later note of the same name
\* overwrites an earlier one.  The assignment to "__proto__" sets the
\* prototype of snapshots.notes, which JSON.stringify does not write.
RECURSIVE indexByName(_, _)
indexByName(notes, acc) ==
  IF notes = <<>> THEN acc
  ELSE LET note == Head(notes)
       IN IF note.name = "__proto__" THEN indexByName(Tail(notes), acc)
          ELSE indexByName(Tail(notes),
                      [n \in DOMAIN acc \cup {note.name} |->
                         IF n = note.name THEN note ELSE acc[n]])

\* saveSnapshots(notes, timestamp): the file is written anew from notes.
saveSnapshots(notes, timestamp) ==
  Some([lastRun |-> timestamp, notes |-> indexByName(notes, <<>>)])

\* allNotes.map(note => ({name, body, modificationDate})), the argument of
\* saveSnapshots in both pipelines.
snapshotData(allNotes) ==
  [i \in 1..Len(allNotes) |->
     [name |-> allNotes[i].name, body |-> allNotes[i].body,
      modificationDate |-> allNotes[i].modificationDate]]

(* ------------------------------ pipelines ------------------------------- *)
\* The sequences over S of length at most n.
RECURSIVE SeqsUpTo(_, _)
SeqsUpTo(S, n) ==
  IF n = 0 THEN {<<>>}
  ELSE SeqsUpTo(S, n - 1)
       \cup {Append(q, x) : q \in {r \in SeqsUpTo(S, n - 1) : Len(r) = n - 1}, x \in S}

\* The snapshot files a run can have left: one snapshot for some of the names.
StoresOver(bodies, date) ==
  {Null} \cup
  UNION {{Some([lastRun |-> date,
                notes |-> [n \in D |-> [name |-> n, body |-> f[n],
                                        modificationDate |-> date]]])
          : f \in [D -> bodies]} : D \in SUBSET Names}

\* What extractNotes() can return: lists of the notes below.
OldDate == 12
FreshDate == 36
StartHour == 48
PipeNotes ==
  {[name |-> "A", body |-> <<"a">>, modificationDate |-> FreshDate],
   [name |-> "A", body |-> <<"b">>, modificationDate |-> FreshDate],
   [name |-> "A", body |-> <<"a", NL, "b">>, modificationDate |-> FreshDate],
   [name |-> "B", body |-> <<"a">>, modificationDate |-> OldDate]}
PipeNoteLists == SeqsUpTo(PipeNotes, MaxNotes)

\* The request keys of /api/extract-notes; the configured key is ApiKey.
ApiKey == "secret"
RequestKeys == {ApiKey, "wrong", ""}

EmptyDoc == [sentinel |-> "", sections |-> <<>>]

\* The locals of the requests that one ApiServer serves at the same time.
Handlers == {1, 2}
ConcNoteLists == SeqsUpTo(PipeNotes, ConcMaxNotes)

NoReq == [pc |-> "idle", allNotes |-> <<>>, processed |-> Null]
NoReqs == [h \in Handlers |-> NoReq]

\* The run in flight: the locals of the handler and what it has done so far.
\*   allNotes, processed   the locals of that name
\*   llmInput              the argument of generateBrief, once it is called
\*   slack                 "none" | "off" | "ok" | "failed"
\*   failed                the step that threw ("" when none did)
\*   result                "" while in flight, then "ok" | "skipped" | "error"
\*                         | "aborted" | "unauthorized"
\*   storeBefore           the snapshot file when the run started
\*   key                   requestData.apiKey of the request ("" when missing)
\* committedNotes holds the notes of the last run that saved its snapshots and
\* ended well, for as long as the snapshot file is the one that run wrote.
NoRun ==
  [kind |-> "none", allNotes |-> <<>>, processed |-> Null, llmInput |-> Null,
   slack |-> "none", failed |-> "", result |-> "", storeBefore |-> Null,
   key |-> ""]

Idle == pc = "idle"

Failed(step) ==
  /\ pc' = "done"
  /\ run' = [run EXCEPT !.failed = step, !.result = "error"]

\* updateLastRun() written by timestamp-store.
updateLastRun == lastRun' = Some(now)

(* CronScheduler.executeDailyBrief *)
\* Steps 1 and 2: extractNotes() and processNotes(allNotes).
CronBegin ==
  /\ Idle /\ mode = "cron"
  /\ \E notes \in PipeNoteLists :
       /\ pc' = "processed"
       /\ run' = [NoRun EXCEPT !.kind = "cron", !.allNotes = notes,
                               !.storeBefore = snapshotStore,
                               !.processed =
                                 Some(processNotesWith(notes, snapshotStore,
                                                       getCutoffDate(lastRun, now)))]
  /\ UNCHANGED <<mode, now, lastRun, snapshotStore, cloud, committedNotes>>

\* extractNotes() throws: the catch block logs and the run ends.
CronExtractFails ==
  /\ Idle /\ mode = "cron"
  /\ pc' = "done"
  /\ run' = [NoRun EXCEPT !.kind = "cron", !.storeBefore = snapshotStore,
                          !.failed = "extractNotes", !.result = "error"]
  /\ UNCHANGED <<mode, now, lastRun, snapshotStore, cloud, committedNotes>>

\* processed.notes.length === 0: update the timestamp and return.
CronSkip ==
  /\ pc = "processed" /\ run.kind = "cron"
  /\ Len(run.processed[1].notes) = 0
  /\ \/ /\ updateLastRun
        /\ pc' = "done"
        /\ run' = [run EXCEPT !.result = "skipped"]
     \/ /\ Failed("updateLastRun")
        /\ UNCHANGED lastRun
  /\ UNCHANGED <<mode, now, snapshotStore, cloud, committedNotes>>

\* Step 3: generateBrief(processed.aggregatedContent), which may throw.
CronGenerate ==
  /\ pc = "processed" /\ run.kind = "cron"
  /\ Len(run.processed[1].notes) # 0
  /\ \/ /\ pc' = "generated"
        /\ run' = [run EXCEPT !.llmInput = Some(run.processed[1].aggregatedContent)]
     \/ /\ pc' = "done"
        /\ run' = [run EXCEPT !.llmInput = Some(run.processed[1].aggregatedContent),
                              !.failed = "generateBrief", !.result = "error"]
  /\ UNCHANGED <<mode, now, lastRun, snapshotStore, cloud, committedNotes>>

\* Step 4: writeDailyBrief(brief), which may throw.
CronWriteFile ==
  /\ pc = "generated" /\ run.kind = "cron"
  /\ \/ pc' = "written" /\ UNCHANGED run
     \/ Failed("writeDailyBrief")
  /\ UNCHANGED <<mode, now, lastRun, snapshotStore, cloud, committedNotes>>

\* Step 5: the Slack post, when a writer is configured; its error is caught.
CronSlack ==
  /\ pc = "written" /\ run.kind = "cron"
  /\ \E outcome \in {"off", "ok", "failed"} : run' = [run EXCEPT !.slack = outcome]
  /\ pc' = "slacked"
  /\ UNCHANGED <<mode, now, lastRun, snapshotStore, cloud, committedNotes>>

\* Step 6: the Apple Note, when configured; it may throw.
CronAppleNote ==
  /\ pc = "slacked" /\ run.kind = "cron"
  /\ \/ pc' = "noted" /\ UNCHANGED run
     \/ Failed("createDailyBriefNote")
  /\ UNCHANGED <<mode, now, lastRun, snapshotStore, cloud, committedNotes>>

\* Step 7 as it would be if only the filtered notes were snapshotted.
CronSaveSnapshots_FilteredOnly ==
  /\ pc = "noted" /\ run.kind = "cron"
  /\ \/ /\ snapshotStore' = saveSnapshots(snapshotData(run.processed[1].notes), now)
        /\ committedNotes' = Null
        /\ pc' = "saved" /\ UNCHANGED run
     \/ /\ Failed("saveSnapshots")
        /\ UNCHANGED <<snapshotStore, committedNotes>>
  /\ UNCHANGED <<mode, now, lastRun, cloud>>

\* Step 7: saveSnapshots of ALL notes, which may throw.
CronSaveSnapshots ==
  /\ pc = "noted" /\ run.kind = "cron"
  /\ \/ /\ snapshotStore' = saveSnapshots(snapshotData(run.allNotes), now)
        /\ committedNotes' = Null
        /\ pc' = "saved" /\ UNCHANGED run
     \/ /\ Failed("saveSnapshots")
        /\ UNCHANGED <<snapshotStore, committedNotes>>
  /\ UNCHANGED <<mode, now, lastRun, cloud>>

\* Step 8: updateLastRun(), which may throw.
CronUpdateLastRun ==
  /\ pc = "saved" /\ run.kind = "cron"
  /\ \/ /\ updateLastRun
        /\ committedNotes' = Some(run.allNotes)
        /\ pc' = "done"
        /\ run' = [run EXCEPT !.result = "ok"]
     \/ /\ Failed("updateLastRun")
        /\ UNCHANGED <<lastRun, committedNotes>>
  /\ UNCHANGED <<mode, now, snapshotStore, cloud>>

(* ApiServer: POST /api/extract-notes *)
\* A missing or wrong apiKey: 401 and return.
ApiUnauthorized ==
  /\ Idle /\ mode = "api"
  /\ \E key \in RequestKeys :
       /\ key = "" \/ key # ApiKey
       /\ pc' = "done"
       /\ run' = [NoRun EXCEPT !.kind = "api", !.storeBefore = snapshotStore,
                               !.key = key, !.result = "unauthorized"]
  /\ UNCHANGED <<mode, now, lastRun, snapshotStore, cloud, committedNotes>>

\* Steps 1 and 2 of a request, whatever its key.
ApiBegin_NoKeyCheck ==
  /\ Idle /\ mode = "api"
  /\ \E key \in RequestKeys, notes \in PipeNoteLists :
       /\ pc' = "processed"
       /\ run' = [NoRun EXCEPT !.kind = "api", !.allNotes = notes,
                               !.storeBefore = snapshotStore, !.key = key,
                               !.processed =
                                 Some(processNotesWith(notes, snapshotStore,
                                                       getCutoffDate(lastRun, now)))]
  /\ UNCHANGED <<mode, now, lastRun, snapshotStore, cloud, committedNotes>>

\* Steps 1 and 2 of an authenticated request.
ApiBegin ==
  /\ Idle /\ mode = "api"
  /\ \E key \in RequestKeys, notes \in PipeNoteLists :
       /\ ~(key = "" \/ key # ApiKey)
       /\ pc' = "processed"
       /\ run' = [NoRun EXCEPT !.kind = "api", !.allNotes = notes,
                               !.storeBefore = snapshotStore, !.key = key,
                               !.processed =
                                 Some(processNotesWith(notes, snapshotStore,
                                                       getCutoffDate(lastRun, now)))]
  /\ UNCHANGED <<mode, now, lastRun, snapshotStore, cloud, committedNotes>>

\* extractNotes() throws in an authenticated request: 500.
ApiExtractFails ==
  /\ Idle /\ mode = "api"
  /\ pc' = "done"
  /\ run' = [NoRun EXCEPT !.kind = "api", !.storeBefore = snapshotStore,
                          !.key = ApiKey,
                          !.failed = "extractNotes", !.result = "error"]
  /\ UNCHANGED <<mode, now, lastRun, snapshotStore, cloud, committedNotes>>

\* storedData of the handler: the notes are left out, the aggregated content
\* and the cutoff are kept.
storedDataOf(processed, lastRunFile, timestamp) ==
  [notes |-> <<>>,
   aggregatedContent |-> processed.aggregatedContent,
   snapshots |-> <<>>,
   timestamp |-> timestamp,
   cutoffDate |-> processed.cutoffDate,
   lastRun |-> lastRunFile]

\* Steps 3 to 5: storedData is built and saved to cloud storage.
ApiSaveCloud ==
  /\ pc = "processed" /\ run.kind = "api"
  /\ \/ /\ cloud' = Some(storedDataOf(run.processed[1], lastRun, now))
        /\ pc' = "stored" /\ UNCHANGED run
     \/ /\ Failed("saveNotes")
        /\ UNCHANGED cloud
  /\ UNCHANGED <<mode, now, lastRun, snapshotStore, committedNotes>>

\* Step 6, first half: saveSnapshots of all notes.
ApiSaveSnapshots ==
  /\ pc = "stored" /\ run.kind = "api"
  /\ \/ /\ snapshotStore' = saveSnapshots(snapshotData(run.allNotes), now)
        /\ committedNotes' = Null
        /\ pc' = "saved" /\ UNCHANGED run
     \/ /\ Failed("saveSnapshots")
        /\ UNCHANGED <<snapshotStore, committedNotes>>
  /\ UNCHANGED <<mode, now, lastRun, cloud>>

\* Step 6, second half: updateLastRun(), then the 200 response.
ApiUpdateLastRun ==
  /\ pc = "saved" /\ run.kind = "api"
  /\ \/ /\ updateLastRun
        /\ committedNotes' = Some(run.allNotes)
        /\ pc' = "done"
        /\ run' = [run EXCEPT !.result = "ok"]
     \/ /\ Failed("updateLastRun")
        /\ UNCHANGED <<lastRun, committedNotes>>
  /\ UNCHANGED <<mode, now, snapshotStore, cloud>>

(* the GitHub Actions process-notes script *)
\* The content main() goes on with: the stored aggregatedContent when it is
\* truthy, else the fallback that processes storedData.notes against the
\* runner's own (missing) snapshot file.  Null stands for process.exit(0).
ghaContent(storedData) ==
  IF storedData.aggregatedContent # EmptyDoc
  THEN Some(storedData.aggregatedContent)
  ELSE LET processed == processNotesWith(storedData.notes, Null, storedData.cutoffDate)
       IN IF Len(processed.notes) = 0 THEN Null
          ELSE Some(processed.aggregatedContent)

\* loadNotes() and the choice of the content; exit(1) without stored data.
GhaBegin ==
  /\ Idle /\ mode = "gha"
  /\ IF cloud = Null
     THEN /\ pc' = "done"
          /\ run' = [NoRun EXCEPT !.kind = "gha", !.storeBefore = snapshotStore,
                                  !.failed = "loadNotes", !.result = "error"]
     ELSE IF ghaContent(cloud[1]) = Null
     THEN /\ pc' = "done"
          /\ run' = [NoRun EXCEPT !.kind = "gha", !.storeBefore = snapshotStore,
                                  !.result = "skipped"]
     ELSE /\ pc' = "processed"
          /\ run' = [NoRun EXCEPT !.kind = "gha", !.storeBefore = snapshotStore]
  /\ UNCHANGED <<mode, now, lastRun, snapshotStore, cloud, committedNotes>>

\* generateBrief(aggregatedContent), which may throw: exit(1).
GhaGenerate ==
  /\ pc = "processed" /\ run.kind = "gha"
  /\ \/ /\ pc' = "generated"
        /\ run' = [run EXCEPT !.llmInput = ghaContent(cloud[1])]
     \/ /\ pc' = "done"
        /\ run' = [run EXCEPT !.llmInput = ghaContent(cloud[1]),
                              !.failed = "generateBrief", !.result = "error"]
  /\ UNCHANGED <<mode, now, lastRun, snapshotStore, cloud, committedNotes>>

\* The Slack post when SLACK_WEBHOOK_URL is set; its error ends the script.
GhaSlack ==
  /\ pc = "generated" /\ run.kind = "gha"
  /\ \/ /\ \E outcome \in {"off", "ok"} : run' = [run EXCEPT !.slack = outcome]
        /\ pc' = "slacked"
     \/ /\ pc' = "done"
        /\ run' = [run EXCEPT !.slack = "failed", !.failed = "postDailyBrief",
                              !.result = "error"]
  /\ UNCHANGED <<mode, now, lastRun, snapshotStore, cloud, committedNotes>>

\* storedData.lastRun is set and saved; a failure of the save is ignored.
GhaSaveCloud ==
  /\ pc = "slacked" /\ run.kind = "gha"
  /\ \/ cloud' = Some([cloud[1] EXCEPT !.lastRun = Some(now)])
     \/ UNCHANGED cloud
  /\ pc' = "done"
  /\ run' = [run EXCEPT !.result = "ok"]
  /\ UNCHANGED <<mode, now, lastRun, snapshotStore, committedNotes>>

\* The handler has returned (the script has exited): its locals are gone.
Finish ==
  /\ pc = "done"
  /\ pc' = "idle"
  /\ run' = NoRun
  /\ UNCHANGED <<mode, now, lastRun, snapshotStore, cloud, committedNotes>>

\* The process is stopped in the middle of a run.
Abort ==
  /\ pc \notin {"idle", "done"}
  /\ pc' = "done"
  /\ run' = [run EXCEPT !.result = "aborted"]
  /\ UNCHANGED <<mode, now, lastRun, snapshotStore, cloud, committedNotes>>

\* Time passes between two runs.
Tick ==
  /\ Idle
  /\ now < StartHour + MaxTicks * TickHours
  /\ now' = now + TickHours
  /\ UNCHANGED <<mode, lastRun, snapshotStore, cloud, committedNotes, pc, run>>

Init ==
  /\ mode \in {"cron", "api"}
  /\ now = StartHour
  /\ lastRun = Null
  /\ snapshotStore = Null
  /\ cloud = Null
  /\ committedNotes = Null
  /\ pc = "idle"
  /\ run = NoRun
  /\ reqs = NoReqs
  /\ recText = <<>> /\ recEngine = "old" /\ recOut = Null
  /\ diffNote = [name |-> "A", body |-> <<>>, modificationDate |-> 0]
  /\ diffStore = Null /\ diffOut = Null
  /\ aggNotes = <<>> /\ aggStore = Null /\ aggCutoff = 0 /\ aggOut = Null

PipeNext ==
  \/ CronBegin \/ CronExtractFails \/ CronSkip \/ CronGenerate \/ CronWriteFile
  \/ CronSlack \/ CronAppleNote \/ CronSaveSnapshots \/ CronUpdateLastRun
  \/ ApiUnauthorized \/ ApiBegin \/ ApiExtractFails \/ ApiSaveCloud
  \/ ApiSaveSnapshots \/ ApiUpdateLastRun
  \/ Finish \/ Abort \/ Tick

Next == PipeNext /\ UNCHANGED <<diffVars, aggVars, concVars, recVars>>

Spec == Init /\ [][Next]_vars

(* ------------------------------- GhaSpec -------------------------------- *)
\* The script run against what cloud storage can hold: nothing, the data an
\* /api/extract-notes request has saved, or data that carries notes and no
\* aggregatedContent.
GhaClouds ==
  {Null}
  \cup {Some(storedDataOf(processNotesWith(notes, store, StartHour - DayHours),
                          Null, StartHour))
        : notes \in PipeNoteLists, store \in StoresOver({<<"a">>, <<"b">>}, StartHour)}
  \cup {Some([notes |-> notes, aggregatedContent |-> EmptyDoc,
               snapshots |-> <<>>, timestamp |-> StartHour,
               cutoffDate |-> StartHour - DayHours, lastRun |-> Null])
        : notes \in PipeNoteLists}

GhaInit ==
  /\ mode = "gha"
  /\ cloud \in GhaClouds
  /\ now = StartHour /\ lastRun = Null /\ snapshotStore = Null
  /\ committedNotes = Null /\ pc = "idle" /\ run = NoRun
  /\ reqs = NoReqs
  /\ recText = <<>> /\ recEngine = "old" /\ recOut = Null
  /\ diffNote = [name |-> "A", body |-> <<>>, modificationDate |-> 0]
  /\ diffStore = Null /\ diffOut = Null
  /\ aggNotes = <<>> /\ aggStore = Null /\ aggCutoff = 0 /\ aggOut = Null

GhaNext ==
  /\ GhaBegin \/ GhaGenerate \/ GhaSlack \/ GhaSaveCloud \/ Finish \/ Abort \/ Tick
  /\ UNCHANGED <<diffVars, aggVars, concVars, recVars>>

GhaSpec == GhaInit /\ [][GhaNext]_vars

(* ------------------------------- ConcSpec ------------------------------- *)
\* Two /api/extract-notes requests served by one ApiServer, over a snapshot
\* file that earlier runs have left: the handler is an async function, so a
\* second request runs while the first one awaits.  The handlers share the
\* snapshot file, the timestamp file and cloud storage.
\* The reads of processNotes are taken as one step.
\* Step 1: await extractNotes().
ReqExtract(h) ==
  /\ reqs[h].pc = "idle"
  /\ \E notes \in ConcNoteLists :
       reqs' = [reqs EXCEPT ![h] = [NoReq EXCEPT !.pc = "extracted", !.allNotes = notes]]
  /\ UNCHANGED <<lastRun, snapshotStore, cloud>>

\* Step 2: await processNotes(allNotes), which reads the two files.
ReqProcess(h) ==
  /\ reqs[h].pc = "extracted"
  /\ reqs' = [reqs EXCEPT ![h].pc = "processed",
                          ![h].processed =
                            Some(processNotesWith(reqs[h].allNotes, snapshotStore,
                                                  getCutoffDate(lastRun, now)))]
  /\ UNCHANGED <<lastRun, snapshotStore, cloud>>

\* Steps 3 to 5: await cloudStorage.saveNotes(storedData), which may throw.
ReqSaveCloud(h) ==
  /\ reqs[h].pc = "processed"
  /\ \/ /\ cloud' = Some(storedDataOf(reqs[h].processed[1], lastRun, now))
        /\ reqs' = [reqs EXCEPT ![h].pc = "stored"]
     \/ /\ reqs' = [reqs EXCEPT ![h].pc = "done"]
        /\ UNCHANGED cloud
  /\ UNCHANGED <<lastRun, snapshotStore>>

\* Step 6, first half: await saveSnapshots(currentSnapshots, new Date()).
ReqSaveSnapshots(h) ==
  /\ reqs[h].pc = "stored"
  /\ \/ /\ snapshotStore' = saveSnapshots(snapshotData(reqs[h].allNotes), now)
        /\ reqs' = [reqs EXCEPT ![h].pc = "saved"]
     \/ /\ reqs' = [reqs EXCEPT ![h].pc = "done"]
        /\ UNCHANGED snapshotStore
  /\ UNCHANGED <<lastRun, cloud>>

\* Step 6, second half: await updateLastRun(), then the response.
ReqUpdateLastRun(h) ==
  /\ reqs[h].pc = "saved"
  /\ \/ updateLastRun
     \/ UNCHANGED lastRun
  /\ reqs' = [reqs EXCEPT ![h].pc = "done"]
  /\ UNCHANGED <<snapshotStore, cloud>>

ConcInit ==
  /\ mode = "api"
  /\ snapshotStore \in StoresOver({<<"a">>}, StartHour - DayHours)
  /\ now = StartHour /\ lastRun = Null /\ cloud = Null
  /\ committedNotes = Null /\ pc = "idle" /\ run = NoRun
  /\ reqs = NoReqs
  /\ recText = <<>> /\ recEngine = "old" /\ recOut = Null
  /\ diffNote = [name |-> "A", body |-> <<>>, modificationDate |-> 0]
  /\ diffStore = Null /\ diffOut = Null
  /\ aggNotes = <<>> /\ aggStore = Null /\ aggCutoff = 0 /\ aggOut = Null

ConcNext ==
  /\ \E h \in Handlers :
       \/ ReqExtract(h) \/ ReqProcess(h) \/ ReqSaveCloud(h)
       \/ ReqSaveSnapshots(h) \/ ReqUpdateLastRun(h)
  /\ UNCHANGED <<diffVars, aggVars, recVars, mode, now, committedNotes, pc, run>>

ConcSpec == ConcInit /\ [][ConcNext]_vars

(* ---------------------- AnthropicClient.parseResponse ------------------- *)
\* The response text is a sequence of lexemes: a punctuation character, a
\* white space character, or a run of other characters (a word).  Width is
\* the number of characters of a lexeme, so that positions and lengths are
\* counted in characters as the code counts them.
QUOTE == "\""
BSLASH == "\\"
LBRACE == "{"
RBRACE == "}"
LBRACK == "["
RBRACK == "]"
COMMA == ","
COLON == ":"
\* The code fence marker of three backquotes, as one lexeme.
FENCE == "~~~"

Width(c) ==
  CASE c = "executiveSummary" -> 16
    [] c = "actionItems" -> 11
    [] c = "priority" -> 8
    [] c = "Medium" -> 6
    [] c \in {"task", "High", "json", "true", "null", "note"} -> 4
    [] c \in {FENCE, "Low"} -> 3
    [] OTHER -> 1

RECURSIVE Length(_)
Length(s) ==
  IF s = <<>> THEN 0
  ELSE IF Len(s) = 1 THEN Width(s[1])
  ELSE LET half == Len(s) \div 2
       IN Length(SubSeq(s, 1, half)) + Length(SubSeq(s, half + 1, Len(s)))

\* The character position of the lexeme at index i (positions start at 0).
PosOf(s, i) == Length(SubSeq(s, 1, i - 1))

IsSpace(c) == c \in {SP, NL, CR, "\t"}

\* The indexes of the lexemes that are c.
IndexesOf(s, c) == {i \in 1..Len(s) : s[i] = c}
Min(S) == CHOOSE x \in S : \A y \in S : x <= y
Max(S) == CHOOSE x \in S : \A y \in S : x >= y

\* A match that must be the whole text, and a match that needs no "}".
matchBraces_Whole(s) ==
  IF s # <<>> /\ s[1] = LBRACE /\ s[Len(s)] = RBRACE THEN Some(s) ELSE Null
matchBraces_ToEnd(s) ==
  LET opens == IndexesOf(s, LBRACE)
  IN IF opens = {} THEN Null ELSE Some(SubSeq(s, Min(opens), Len(s)))

\* response.match(/\{[\s\S]*\}/): from the first "{" to the last "}" of the
\* text, when that "}" comes after that "{"; Null when there is no match.
matchBraces(s) ==
  LET opens == IndexesOf(s, LBRACE)
      closes == IndexesOf(s, RBRACE)
  IN IF opens = {} \/ closes = {} THEN Null
     ELSE IF Max(closes) < Min(opens) THEN Null
     ELSE Some(SubSeq(s, Min(opens), Max(closes)))

\* The index of the first lexeme from index i on that is not white space.
RECURSIVE skipWs(_, _)
skipWs(s, i) == IF i <= Len(s) /\ IsSpace(s[i]) THEN skipWs(s, i + 1) ELSE i

\* s.replace(regex, ...) as the text without the lexemes the matches remove:
\* what is left of s when the indexes in removed are taken out.
Without(s, removed) ==
  LET kept == SelectSeq([i \in 1..Len(s) |-> i], LAMBDA i : i \notin removed)
  IN [k \in 1..Len(kept) |-> s[kept[k]]]

\* The two replace calls that remove the fence markers: the marker followed
\* by json, then the bare marker, each with the white space after it.
removeJsonFences(s) ==
  LET starts == {i \in 1..(Len(s) - 1) : s[i] = FENCE /\ s[i + 1] = "json"}
  IN Without(s, UNION {i..(skipWs(s, i + 2) - 1) : i \in starts})

removeFences(s) ==
  LET starts == {i \in 1..Len(s) : s[i] = FENCE}
  IN Without(s, UNION {i..(skipWs(s, i + 1) - 1) : i \in starts})

cleaned(response) == removeFences(removeJsonFences(response))

\* The replace call with /,(\s*[}\]])/g: a comma that is followed, after
\* any white space, by "}" or "]" is dropped, inside string literals too.
removeTrailingCommas(s) ==
  Without(s, {i \in 1..Len(s) :
                /\ s[i] = COMMA
                /\ LET j == skipWs(s, i + 1)
                   IN j <= Len(s) /\ s[j] \in {RBRACE, RBRACK}})

(* JSON.parse *)
\* A parsed value is [t, v]: t = "str" with v the lexemes of the string,
\* t = "lit" with v the one lexeme of true, false, null or a number,
\* t = "arr" with v the elements, t = "obj" with v the members [k, val] in
\* the order of the text.
StrVal(content) == [t |-> "str", v |-> content]
LitVal(c) == [t |-> "lit", v |-> <<c>>]
ArrVal(elements) == [t |-> "arr", v |-> elements]
ObjVal(members) == [t |-> "obj", v |-> members]
NullVal == LitVal("null")
Literals == {"true", "false", "null", "0", "1"}

\* The outcome of a parse step: the value and the index after it, or the
\* kind of the SyntaxError and the character position it is raised at.
\*   "eos"           the text ends where a value is expected
\*   "expected"      the text ends where a property name, a colon, a comma
\*                   or a closing bracket is expected
\*   "unterminated"  the text ends inside a string literal
\*   "token"         a token that cannot start a value, where a value is expected
\*   "syntax"        any other unexpected token or character
Parsed(val, next) == [ok |-> TRUE, val |-> val, next |-> next, kind |-> "", pos |-> 0]
SyntaxError(kind, pos) ==
  [ok |-> FALSE, val |-> NullVal, next |-> 0, kind |-> kind, pos |-> pos]

\* The string literal whose opening quote is before index j.
RECURSIVE parseStringFrom(_, _, _)
parseStringFrom(s, j, acc) ==
  IF j > Len(s) THEN SyntaxError("unterminated", Length(s))
  ELSE IF s[j] = QUOTE THEN Parsed(StrVal(acc), j + 1)
  ELSE IF s[j] = BSLASH
       THEN IF j + 1 > Len(s) THEN SyntaxError("unterminated", Length(s))
            ELSE IF s[j + 1] \in {QUOTE, BSLASH}
                 THEN parseStringFrom(s, j + 2, Append(acc, s[j + 1]))
                 ELSE SyntaxError("syntax", PosOf(s, j + 1))
  ELSE IF IsSpace(s[j]) /\ s[j] # SP THEN SyntaxError("syntax", PosOf(s, j))
  ELSE parseStringFrom(s, j + 1, Append(acc, s[j]))

RECURSIVE parseValue(_, _)
RECURSIVE parseMembers(_, _, _)
RECURSIVE parseElements(_, _, _)

\* The value that starts at index i0, after white space.
parseValue(s, i0) ==
  LET i == skipWs(s, i0)
  IN IF i > Len(s) THEN SyntaxError("eos", Length(s))
     ELSE IF s[i] = QUOTE THEN parseStringFrom(s, i + 1, <<>>)
     ELSE IF s[i] \in Literals THEN Parsed(LitVal(s[i]), i + 1)
     ELSE IF s[i] = LBRACE
          THEN LET j == skipWs(s, i + 1)
               IN IF j > Len(s) THEN SyntaxError("expected", Length(s))
                  ELSE IF s[j] = RBRACE THEN Parsed(ObjVal(<<>>), j + 1)
                  ELSE parseMembers(s, j, <<>>)
     ELSE IF s[i] = LBRACK
          THEN LET j == skipWs(s, i + 1)
               IN IF j > Len(s) THEN SyntaxError("eos", Length(s))
                  ELSE IF s[j] = RBRACK THEN Parsed(ArrVal(<<>>), j + 1)
                  ELSE parseElements(s, j, <<>>)
     ELSE SyntaxError("token", PosOf(s, i))

\* The members of an object from the property name at index j on.
parseMembers(s, j, acc) ==
  IF j > Len(s) THEN SyntaxError("expected", Length(s))
  ELSE IF s[j] # QUOTE THEN SyntaxError("syntax", PosOf(s, j))
  ELSE
    LET key == parseStringFrom(s, j + 1, <<>>)
    IN IF ~key.ok THEN key
       ELSE
         LET k == skipWs(s, key.next)
         IN IF k > Len(s) THEN SyntaxError("expected", Length(s))
            ELSE IF s[k] # COLON THEN SyntaxError("syntax", PosOf(s, k))
            ELSE
              LET value == parseValue(s, k + 1)
              IN IF ~value.ok THEN value
                 ELSE
                   LET m == skipWs(s, value.next)
                       members == Append(acc, [k |-> key.val.v, val |-> value.val])
                   IN IF m > Len(s) THEN SyntaxError("expected", Length(s))
                      ELSE IF s[m] = COMMA
                           THEN parseMembers(s, skipWs(s, m + 1), members)
                      ELSE IF s[m] = RBRACE THEN Parsed(ObjVal(members), m + 1)
                      ELSE SyntaxError("syntax", PosOf(s, m))

\* The elements of an array from the value at index j on.
parseElements(s, j, acc) ==
  LET value == parseValue(s, j)
  IN IF ~value.ok THEN value
     ELSE
       LET m == skipWs(s, value.next)
           elements == Append(acc, value.val)
       IN IF m > Len(s) THEN SyntaxError("expected", Length(s))
          ELSE IF s[m] = COMMA THEN parseElements(s, m + 1, elements)
          ELSE IF s[m] = RBRACK THEN Parsed(ArrVal(elements), m + 1)
          ELSE SyntaxError("syntax", PosOf(s, m))

\* JSON.parse(s): one value, then only white space.
jsonParse(s) ==
  LET value == parseValue(s, 1)
  IN IF ~value.ok THEN value
     ELSE LET m == skipWs(s, value.next)
          IN IF m <= Len(s) THEN SyntaxError("syntax", PosOf(s, m)) ELSE value

\* The engines Node.js 18+ runs on word the SyntaxError differently: the
\* the older engine has "position N" in the message for every unexpected
\* token and never at the end of the input; the newer engine has it for an
\* unterminated string and for the errors that name what is expected, at the
\* end of the input too, and not for a token that cannot start a value.
Engines == {"old", "new"}
hasPosition(engine, kind) ==
  CASE kind = "eos" -> FALSE
    [] kind = "expected" -> engine = "new"
    [] kind = "unterminated" -> engine = "new"
    [] kind = "token" -> engine = "old"
    [] OTHER -> TRUE

\* errorPos of the catch block: Null when the message has no position.
errorPosOf(engine, parseError) ==
  IF hasPosition(engine, parseError.kind) THEN Some(parseError.pos) ELSE Null

(* the truncation repair of parseResponse *)
TailWindow == 50
ScanAhead == 100

\* s.indexOf(sub, from) as an index of s: 0 when sub does not occur.
indexOf(s, sub, from) ==
  LET hits == {i \in from..(Len(s) - Len(sub) + 1) : SubSeq(s, i, i + Len(sub) - 1) = sub}
  IN IF hits = {} THEN 0 ELSE Min(hits)

includes(s, sub) == indexOf(s, sub, 1) # 0

\* A loop that does not skip the character after a backslash.
RECURSIVE findObjEnd_NoEscape(_, _, _, _, _, _, _)
findObjEnd_NoEscape(s, i, pos, errorPos, braceCount, inString, escapeNext) ==
  IF ~(i <= Len(s) /\ pos < errorPos + ScanAhead) THEN 0
  ELSE LET char == s[i]
           opens == char # QUOTE /\ ~inString /\ char = LBRACE
           closes == char # QUOTE /\ ~inString /\ char = RBRACE
           count == braceCount + (IF opens THEN 1 ELSE 0) - (IF closes THEN 1 ELSE 0)
       IN IF count = 0 /\ closes THEN i
          ELSE findObjEnd_NoEscape(s, i + 1, pos + Width(char), errorPos, count,
                 IF char = QUOTE THEN ~inString ELSE inString,
                 FALSE)

\* The for loop that looks for the matching closing brace of the object that
\* opens at objStart: the index of that brace, or 0 (objEnd = -1).  The loop
\* variable is the lexeme at index i, which starts at character pos.
RECURSIVE findObjEnd(_, _, _, _, _, _, _)
findObjEnd(s, i, pos, errorPos, braceCount, inString, escapeNext) ==
  IF ~(i <= Len(s) /\ pos < errorPos + ScanAhead) THEN 0
  ELSE LET char == s[i]
           \* neither skipped as escaped, nor a backslash, nor a quote
           plain == ~escapeNext /\ char # BSLASH /\ char # QUOTE
           opens == plain /\ ~inString /\ char = LBRACE
           closes == plain /\ ~inString /\ char = RBRACE
           \* braceCount after braceCount++ or braceCount--
           count == braceCount + (IF opens THEN 1 ELSE 0) - (IF closes THEN 1 ELSE 0)
       IN IF count = 0 /\ closes THEN i
          ELSE findObjEnd(s, i + 1, pos + Width(char), errorPos, count,
                 IF ~escapeNext /\ char = QUOTE THEN ~inString ELSE inString,
                 ~escapeNext /\ char = BSLASH)

RECURSIVE skipWsCommas(_, _)
skipWsCommas(s, i) ==
  IF i <= Len(s) /\ (IsSpace(s[i]) \/ s[i] = COMMA) THEN skipWsCommas(s, i + 1) ELSE i

\* The while loop that collects the complete action items: matches.
RECURSIVE collectItems(_, _, _, _)
collectItems(s, currentPos, errorPos, matches) ==
  IF ~(currentPos <= Len(s) /\ PosOf(s, currentPos) < errorPos) THEN matches
  ELSE
    LET cur == skipWsCommas(s, currentPos)
    IN IF cur > Len(s) THEN matches
       ELSE IF s[cur] = LBRACE
            THEN LET objEnd == findObjEnd(s, cur, PosOf(s, cur), errorPos, 0, FALSE, FALSE)
                 IN IF objEnd > 0
                    THEN LET objStr == SubSeq(s, cur, objEnd)
                         IN IF /\ includes(objStr, <<QUOTE, "task", QUOTE>>)
                               /\ includes(objStr, <<QUOTE, "priority", QUOTE>>)
                            THEN collectItems(s, objEnd + 1, errorPos, Append(matches, objStr))
                            ELSE collectItems(s, cur + 1, errorPos, matches)
                    ELSE matches
            ELSE collectItems(s, cur + 1, errorPos, matches)

RECURSIVE joinWith(_, _)
joinWith(parts, sep) ==
  IF parts = <<>> THEN <<>>
  ELSE IF Len(parts) = 1 THEN parts[1]
  ELSE parts[1] \o sep \o joinWith(Tail(parts), sep)

Indent == <<NL, SP, SP, SP, SP>>

\* fixedJson: the text up to the opening bracket, the items, "]" and "}".
fixedJson(s, arrayStart, matches) ==
  SubSeq(s, 1, arrayStart) \o Indent \o joinWith(matches, <<COMMA>> \o Indent)
    \o <<NL, SP, SP, RBRACK, NL, RBRACE>>

\* A truncated branch that takes no item for an empty list of items.
fixTruncated_EmptyList(s, errorPos) ==
  LET actionItemsStart == indexOf(s, <<QUOTE, "actionItems", QUOTE>>, 1)
      arrayStart == IF actionItemsStart = 0 THEN 0
                    ELSE indexOf(s, <<LBRACK>>, actionItemsStart)
      found == actionItemsStart # 0 /\ PosOf(s, actionItemsStart) > 0
               /\ arrayStart # 0 /\ PosOf(s, arrayStart) > 0
  IN IF ~found
     THEN [ok |-> FALSE, val |-> NullVal, error |-> "Truncated", parses |-> 0]
     ELSE
       LET matches == collectItems(s, arrayStart + 1, errorPos, <<>>)
           fixed == jsonParse(fixedJson(s, arrayStart, matches))
       IN IF fixed.ok
          THEN [ok |-> TRUE, val |-> fixed.val, error |-> "", parses |-> 1]
          ELSE [ok |-> FALSE, val |-> NullVal, error |-> "Truncated", parses |-> 1]

\* The truncated branch: the parse of fixedJson, or the error thrown.
\* [ok, val, error, parses]
fixTruncated(s, errorPos) ==
  LET actionItemsStart == indexOf(s, <<QUOTE, "actionItems", QUOTE>>, 1)
      arrayStart == IF actionItemsStart = 0 THEN 0
                    ELSE indexOf(s, <<LBRACK>>, actionItemsStart)
      found == actionItemsStart # 0 /\ PosOf(s, actionItemsStart) > 0
               /\ arrayStart # 0 /\ PosOf(s, arrayStart) > 0
  IN IF ~found
     THEN [ok |-> FALSE, val |-> NullVal, error |-> "Truncated", parses |-> 0]
     ELSE
       LET matches == collectItems(s, arrayStart + 1, errorPos, <<>>)
       IN IF Len(matches) = 0
          THEN [ok |-> FALSE, val |-> NullVal, error |-> "TruncatedNoItems", parses |-> 0]
          ELSE LET fixed == jsonParse(fixedJson(s, arrayStart, matches))
               IN IF fixed.ok
                  THEN [ok |-> TRUE, val |-> fixed.val, error |-> "", parses |-> 1]
                  ELSE [ok |-> FALSE, val |-> NullVal, error |-> "Truncated", parses |-> 1]

(* the validation of parseResponse *)
IsNull(val) == val.t = "lit" /\ val.v = <<"null">>

\* parsed[key]: Null stands for undefined.
getProp(val, key) ==
  IF val.t # "obj" THEN Null
  ELSE LET hits == {i \in 1..Len(val.v) : val.v[i].k = <<key>>}
       IN IF hits = {} THEN Null ELSE Some(val.v[Max(hits)].val)

\* The truthiness of a property.
truthy(prop) ==
  IF prop = Null THEN FALSE
  ELSE IF prop[1].t = "str" THEN prop[1].v # <<>>
  ELSE IF prop[1].t = "lit" THEN prop[1].v[1] \notin {"false", "null", "0"}
  ELSE TRUE

isArray(prop) == prop # Null /\ prop[1].t = "arr"

\* String(value)
RECURSIVE String(_)
String(val) ==
  IF val.t = "str" THEN val.v
  ELSE IF val.t = "lit" THEN val.v
  ELSE IF val.t = "obj" THEN <<"[object Object]">>
  ELSE joinWith([i \in 1..Len(val.v) |->
                   IF IsNull(val.v[i]) THEN <<>> ELSE String(val.v[i])],
                <<COMMA>>)

Priorities == {<<"High">>, <<"Medium">>, <<"Low">>}

\* The priority of the map callback.
priorityOf(item) ==
  LET given == getProp(item, "priority")
  IN IF truthy(given) /\ given[1].t = "str" /\ given[1].v \in Priorities
     THEN given[1].v ELSE <<"Medium">>

\* .map(...).filter(item => item !== null)
RECURSIVE normalizeItems(_)
normalizeItems(items) ==
  IF items = <<>> THEN <<>>
  ELSE LET item == Head(items)
       IN IF ~truthy(getProp(item, "task")) THEN normalizeItems(Tail(items))
          ELSE <<[task |-> String(getProp(item, "task")[1]),
                  priority |-> priorityOf(item)]>> \o normalizeItems(Tail(items))

NoBrief == [executiveSummary |-> <<>>, actionItems |-> <<>>]

\* What parseResponse ends with: the brief it returns, or the error it throws.
\*   error    "" | "NoJSON" | "Truncated" | "TruncatedNoItems" | "ParseFailed"
\*            | "InvalidStructure" | "TypeError"
\*   span     jsonMatch[0], Null when nothing matched
\*   parses   the number of JSON.parse calls
\*   repaired the value that was validated comes from fixedJson
Returned(brief, span, parses, repaired) ==
  [ok |-> TRUE, error |-> "", brief |-> brief, span |-> span,
   parses |-> parses, repaired |-> repaired]
Thrown(error, span, parses) ==
  [ok |-> FALSE, error |-> error, brief |-> NoBrief, span |-> span,
   parses |-> parses, repaired |-> FALSE]

\* "Validate structure" and "Validate and normalize action items".
validate(parsed, span, parses, repaired) ==
  LET Throw(error) == [Thrown(error, span, parses) EXCEPT !.repaired = repaired]
  IN IF IsNull(parsed) THEN Throw("TypeError")
     ELSE
       LET executiveSummary == getProp(parsed, "executiveSummary")
           actionItems == getProp(parsed, "actionItems")
       IN IF ~truthy(executiveSummary) \/ ~isArray(actionItems)
          THEN Throw("InvalidStructure")
          ELSE IF \E i \in 1..Len(actionItems[1].v) : IsNull(actionItems[1].v[i])
          THEN Throw("TypeError")
          ELSE Returned([executiveSummary |-> String(executiveSummary[1]),
                         actionItems |-> normalizeItems(actionItems[1].v)],
                        span, parses, repaired)

\* The branch for a text that does not look truncated: the trailing commas
\* are removed twice more and the text is parsed again.
retryParse_AsTruncated(jsonString, jsonMatch) ==
  LET again == jsonParse(removeTrailingCommas(removeTrailingCommas(jsonString)))
  IN IF again.ok THEN validate(again.val, jsonMatch, 2, FALSE)
     ELSE Thrown("Truncated", jsonMatch, 2)
retryParse(jsonString, jsonMatch) ==
  LET again == jsonParse(removeTrailingCommas(removeTrailingCommas(jsonString)))
  IN IF again.ok THEN validate(again.val, jsonMatch, 2, FALSE)
     ELSE Thrown("ParseFailed", jsonMatch, 2)

\* A test that takes any position for a truncation.
looksTruncated_AnyPosition(errorPos, jsonString) == errorPos # Null

\* The test of the truncated branch: the message has a position, it is not
\* 0, and it is within TailWindow characters of the end of the text.
looksTruncated(errorPos, jsonString) ==
  errorPos # Null /\ errorPos[1] # 0
  /\ errorPos[1] >= Length(jsonString) - TailWindow

\* parseResponse(response) on an engine.
parseResponse(engine, response) ==
  LET first == matchBraces(response)
      jsonMatch == IF first # Null THEN first ELSE matchBraces(cleaned(response))
  IN IF jsonMatch = Null THEN Thrown("NoJSON", Null, 0)
     ELSE
       LET jsonString == removeTrailingCommas(jsonMatch[1])
           strict == jsonParse(jsonString)
       IN IF strict.ok THEN validate(strict.val, jsonMatch, 1, FALSE)
          ELSE
            LET errorPos == errorPosOf(engine, strict)
            IN IF looksTruncated(errorPos, jsonString)
               THEN LET fixed == fixTruncated(jsonString, errorPos[1])
                    IN IF fixed.ok
                       THEN validate(fixed.val, jsonMatch, 1 + fixed.parses, TRUE)
                       ELSE Thrown(fixed.error, jsonMatch, 1 + fixed.parses)
               ELSE retryParse(jsonString, jsonMatch)

(* ------------------------------ RecoverSpec ----------------------------- *)
\* parseResponse applied to one response text on one engine.
MaxItems == 2

StrText(content) == <<QUOTE>> \o content \o <<QUOTE>>
MemberText(key, valueText) == StrText(<<key>>) \o <<COLON>> \o valueText
ObjText(members) == <<LBRACE>> \o joinWith(members, <<COMMA>>) \o <<RBRACE>>
ArrText(elements) == <<LBRACK>> \o joinWith(elements, <<COMMA>>) \o <<RBRACK>>

\* The texts of action items: a plain one and one with "}" in its task,
\* which have a task and a priority of the three; one without a task, one
\* with a priority outside the three, and one without a priority.
PlainItem ==
  ObjText(<<MemberText("task", StrText(<<"t">>)),
            MemberText("priority", StrText(<<"High">>))>>)
BraceItem ==
  ObjText(<<MemberText("task", StrText(<<"u", RBRACE>>)),
            MemberText("priority", StrText(<<"Low">>))>>)
GoodItemTexts == {PlainItem, BraceItem}
RecItemTexts ==
  GoodItemTexts
  \cup {ObjText(<<MemberText("priority", StrText(<<"High">>))>>),
        ObjText(<<MemberText("task", StrText(<<"t">>)),
                  MemberText("priority", StrText(<<"x">>))>>),
        ObjText(<<MemberText("task", StrText(<<"v">>))>>)}

\* An item whose task holds an escaped quote before "}", and an item that
\* is not JSON: its priority is a bare word.
EscItem ==
  ObjText(<<MemberText("task", StrText(<<"u", BSLASH, QUOTE, RBRACE>>)),
            MemberText("priority", StrText(<<"Low">>))>>)
BadItem ==
  ObjText(<<MemberText("task", StrText(<<"t">>)),
            MemberText("priority", <<"note">>)>>)

\* The texts of the executiveSummary value: strings, values that are not
\* strings, and a word that is not JSON.
GoodSummary == StrText(<<"s">>)
RecSummaryTexts ==
  {GoodSummary, StrText(<<>>), StrText(<<"s", COMMA, RBRACK>>),
   <<LBRACK, RBRACK>>, <<"true">>, <<"note">>}

BriefText(summaryText, itemTexts) ==
  ObjText(<<MemberText("executiveSummary", summaryText),
            MemberText("actionItems", ArrText(itemTexts))>>)

RecItemLists == SeqsUpTo(RecItemTexts, MaxItems)

\* Objects: a brief, objects that lack a key or hold null where the array
\* or an item is expected, and briefs with the two items above.
RecObjects ==
  {BriefText(summary, items) : summary \in RecSummaryTexts, items \in RecItemLists}
  \cup {ObjText(<<>>),
        ObjText(<<MemberText("executiveSummary", GoodSummary)>>),
        ObjText(<<MemberText("actionItems", ArrText(<<>>))>>),
        BriefText(GoodSummary, <<<<"null">>>>),
        BriefText(GoodSummary, <<<<"null">>, PlainItem>>),
        BriefText(GoodSummary, <<EscItem>>),
        BriefText(GoodSummary, <<BadItem>>),
        ObjText(<<MemberText("executiveSummary", GoodSummary),
                  MemberText("actionItems", <<"null">>)>>)}

Fenced(text) == <<FENCE, "json", NL>> \o text \o <<NL, FENCE>>
IsFenced(text) ==
  /\ Len(text) >= 5
  /\ SubSeq(text, 1, 3) = <<FENCE, "json", NL>>
  /\ SubSeq(text, Len(text) - 1, Len(text)) = <<NL, FENCE>>
Unfenced(text) == SubSeq(text, 4, Len(text) - 2)

\* A comma put before the last "]" of the text.
WithTrailingComma(text) ==
  LET i == Max(IndexesOf(text, RBRACK))
  IN SubSeq(text, 1, i - 1) \o <<COMMA, NL>> \o SubSeq(text, i, Len(text))

\* The good brief with these items, cut k lexemes into item n + 1.
CutInItem(items, n, k) ==
  LET before == Len(BriefText(GoodSummary, SubSeq(items, 1, n))) - 2
                + (IF n > 0 THEN 1 ELSE 0)
  IN SubSeq(BriefText(GoodSummary, items), 1, before + k)

\* The responses: an object as it is, fenced, after prose, before a stray
\* "}", with a trailing comma; a good brief cut at every place; and texts
\* without a brace-delimited structure.
RecTruncated ==
  UNION {{SubSeq(BriefText(GoodSummary, items), 1, k)
          : k \in 1..(Len(BriefText(GoodSummary, items)) - 1)}
         : items \in RecItemLists}

RecNoStructure ==
  {<<>>, <<"note">>, <<LBRACE>>, <<RBRACE>>, <<RBRACE, SP, LBRACE>>,
   Fenced(<<"note">>), Fenced(<<LBRACE>>), <<LBRACK, RBRACK>>}

RecTexts ==
  RecObjects
  \cup {Fenced(text) : text \in RecObjects}
  \cup {<<"note", COLON, SP>> \o text : text \in RecObjects}
  \cup {text \o <<SP, RBRACE>> : text \in RecObjects}
  \cup {WithTrailingComma(text) : text \in {t \in RecObjects : IndexesOf(t, RBRACK) # {}}}
  \cup RecTruncated
  \cup RecNoStructure

RecInit ==
  /\ recText \in RecTexts
  /\ recEngine \in Engines
  /\ recOut = Null
  /\ diffNote = [name |-> "A", body |-> <<>>, modificationDate |-> 0]
  /\ diffStore = Null /\ diffOut = Null
  /\ aggNotes = <<>> /\ aggStore = Null /\ aggCutoff = 0 /\ aggOut = Null
  /\ mode = "none"
  /\ now = StartHour /\ lastRun = Null /\ snapshotStore = Null /\ cloud = Null
  /\ committedNotes = Null /\ pc = "idle" /\ run = NoRun
  /\ reqs = NoReqs

ParseResponse ==
  /\ recOut = Null
  /\ recOut' = Some(parseResponse(recEngine, recText))
  /\ UNCHANGED <<recText, recEngine>>
  /\ UNCHANGED <<diffVars, aggVars, pipeVars, concVars>>

RecNext == ParseResponse

RecoverSpec == RecInit /\ [][RecNext]_vars

(* ------------------------------- AggSpec -------------------------------- *)
\* processNotes applied to a list of notes, a snapshot file and a cutoff.
AggBodies == {<<SP>>, <<"a">>, <<"a", NL, "b">>}
AggDates == {12, 24, 36}
AggCutoffs == {24}

AggNoteSet == [name : Names, body : AggBodies, modificationDate : AggDates]

AggInit ==
  /\ aggNotes \in SeqsUpTo(AggNoteSet, AggMaxNotes)
  /\ aggStore \in StoresOver(AggBodies, 12)
  /\ aggCutoff \in AggCutoffs
  /\ aggOut = Null
  /\ diffNote = [name |-> "A", body |-> <<>>, modificationDate |-> 0]
  /\ diffStore = Null /\ diffOut = Null
  /\ mode = "none"
  /\ now = StartHour /\ lastRun = Null /\ snapshotStore = Null /\ cloud = Null
  /\ committedNotes = Null /\ pc = "idle" /\ run = NoRun
  /\ reqs = NoReqs
  /\ recText = <<>> /\ recEngine = "old" /\ recOut = Null

\* A call that also saves the snapshots of the notes it was given.
ProcessNotes_SavesSnapshots ==
  /\ Len(aggOut) < AggMaxCalls
  /\ aggOut' = Append(aggOut, processNotesWith(aggNotes, aggStore, aggCutoff))
  /\ aggStore' = saveSnapshots(snapshotData(aggNotes), aggCutoff)
  /\ UNCHANGED <<aggNotes, aggCutoff>>
  /\ UNCHANGED <<diffVars, pipeVars, concVars, recVars>>

\* One call of processNotes; aggOut holds the results of the calls so far,
\* the first call first.  The call reads the notes and the snapshot file and
\* writes neither: filter makes a new array, and sort orders that array.
ProcessNotes ==
  /\ Len(aggOut) < AggMaxCalls
  /\ aggOut' = Append(aggOut, processNotesWith(aggNotes, aggStore, aggCutoff))
  /\ UNCHANGED <<aggNotes, aggStore, aggCutoff>>
  /\ UNCHANGED <<diffVars, pipeVars, concVars, recVars>>

AggNext == ProcessNotes

AggSpec == AggInit /\ [][AggNext]_vars

(* ------------------------------ DiffSpec -------------------------------- *)
\* extractNewContent applied to one note and one snapshot file.
DiffDate == 0

DiffStores ==
  {Null, Some([lastRun |-> DiffDate, notes |-> <<>>])}
  \cup {Some([lastRun |-> DiffDate,
              notes |-> [n \in {"A"} |->
                           [name |-> "A", body |-> b, modificationDate |-> DiffDate]]])
        : b \in StrsUpTo(MaxPrevLen)}

DiffInit ==
  /\ diffNote \in {[name |-> "A", body |-> b, modificationDate |-> DiffDate]
                   : b \in StrsUpTo(MaxLen)}
  /\ diffStore \in DiffStores
  /\ diffOut = Null
  /\ aggNotes = <<>> /\ aggStore = Null /\ aggCutoff = 0 /\ aggOut = Null
  /\ mode = "none"
  /\ now = StartHour /\ lastRun = Null /\ snapshotStore = Null /\ cloud = Null
  /\ committedNotes = Null /\ pc = "idle" /\ run = NoRun
  /\ reqs = NoReqs
  /\ recText = <<>> /\ recEngine = "old" /\ recOut = Null

DiffRecord ==
  /\ diffOut = Null
  /\ diffOut' = Some(extractNewContent(diffNote, diffStore))
  /\ UNCHANGED <<diffNote, diffStore>>
  /\ UNCHANGED <<aggVars, pipeVars, concVars, recVars>>

DiffNext == DiffRecord

DiffSpec == DiffInit /\ [][DiffNext]_vars

(* ------------------------------ SnapSpec -------------------------------- *)
\* saveSnapshots applied to a list of notes over a snapshot file, followed by
\* extractNewContent on one note.  diffStore is the file, aggNotes the list
\* that was passed to saveSnapshots, diffNote the note that is diffed.
SnapMaxNotes == 2

SnapNames == Names \cup ObjectPrototypeKeys

SnapNotes ==
  {[name |-> n, body |-> b, modificationDate |-> DiffDate]
   : n \in SnapNames, b \in {<<"a">>, <<"b">>}}

SnapNoteLists == SeqsUpTo(SnapNotes, SnapMaxNotes)

SnapStores ==
  {Null}
  \cup {Some([lastRun |-> DiffDate,
              notes |-> [n \in {name} |->
                           [name |-> name, body |-> <<"a">>,
                            modificationDate |-> DiffDate]]])
        : name \in SnapNames \ {"__proto__"}}

SnapInit ==
  /\ diffStore \in SnapStores
  /\ diffNote = [name |-> "A", body |-> <<>>, modificationDate |-> DiffDate]
  /\ diffOut = Null
  /\ aggNotes = <<>> /\ aggStore = Null /\ aggCutoff = 0 /\ aggOut = Null
  /\ mode = "none"
  /\ now = StartHour /\ lastRun = Null /\ snapshotStore = Null /\ cloud = Null
  /\ committedNotes = Null /\ pc = "idle" /\ run = NoRun
  /\ reqs = NoReqs
  /\ recText = <<>> /\ recEngine = "old" /\ recOut = Null

snapRest ==
  <<aggStore, aggCutoff, aggOut, mode, now, lastRun, snapshotStore, cloud,
    committedNotes, run, reqs, recText, recEngine, recOut>>

\* await snapshotStore.saveSnapshots(notes, timestamp).
SnapSave ==
  /\ pc = "idle"
  /\ \E notes \in SnapNoteLists :
       /\ aggNotes' = notes
       /\ diffStore' = saveSnapshots(snapshotData(notes), DiffDate)
  /\ pc' = "saved"
  /\ UNCHANGED <<diffNote, diffOut, snapRest>>

\* A later extractNewContent(note), which reads the file that was saved.
SnapDiff ==
  /\ pc = "saved"
  /\ \E note \in SnapNotes :
       /\ diffNote' = note
       /\ diffOut' = Some(extractNewContent(note, diffStore))
  /\ pc' = "done"
  /\ UNCHANGED <<diffStore, aggNotes, snapRest>>

SnapNext == SnapSave \/ SnapDiff

SnapSpec == SnapInit /\ [][SnapNext]_vars

(* ------------------- properties of extractNewContent -------------------- *)
IsBlank(line) == trim(line) = <<>>

\* The set of trimmed non-empty lines of a snapshot body.
TrimmedLinesOf(body) ==
  {trim(split(body)[k]) : k \in {j \in 1..Len(split(body)) : ~IsBlank(split(body)[j])}}

DiffPrev == getNoteSnapshot(diffStore, diffNote.name)
DiffDone == diffOut # Null
DiffWithSnapshot == DiffDone /\ DiffPrev # Null
DiffFirstSight == DiffDone /\ DiffPrev = Null

\* C1: with a previous snapshot, a line of the current body is reported as new
\* iff, trimmed, it is non-empty and not among the trimmed non-empty lines of
\* the snapshot body; the reported lines keep the order of the current body.
C1_NewIffAbsentFromSnapshot ==
  DiffWithSnapshot =>
    diffOut[1].newLines =
      SelectSeq(split(diffNote.body),
                LAMBDA line : ~IsBlank(line)
                              /\ trim(line) \notin TrimmedLinesOf(DiffPrev[1].body))

\* C1 witness: some content lines are reported and some are suppressed.
C1_Witness ==
  /\ DiffWithSnapshot
  /\ Len(diffOut[1].newLines) >= 1
  /\ \E k \in 1..Len(split(diffNote.body)) :
        /\ ~IsBlank(split(diffNote.body)[k])
        /\ trim(split(diffNote.body)[k]) \in TrimmedLinesOf(DiffPrev[1].body)

\* C2: without a previous snapshot the returned content is the whole body:
\* its lines are the lines of the body, each one reported and in order.
C2_FirstSightReturnsWholeBody ==
  DiffFirstSight =>
    /\ diffOut[1].firstSight
    /\ split(diffOut[1].content) = split(diffNote.body)

\* C2 witness: a first-sight record whose body has a blank and a content line.
C2_Witness ==
  /\ DiffFirstSight
  /\ \E k \in 1..Len(split(diffNote.body)) : IsBlank(split(diffNote.body)[k])
  /\ \E k \in 1..Len(split(diffNote.body)) : ~IsBlank(split(diffNote.body)[k])

\* C3 as claimed: no blank line is ever reported, with or without a snapshot
\* (stated on the content that has something to report).
C3_Original_NoBlankLineEver ==
  DiffDone /\ ~IsBlank(diffOut[1].content) =>
    \A k \in 1..Len(split(diffOut[1].content)) : ~IsBlank(split(diffOut[1].content)[k])

\* C3 amended: with a previous snapshot no blank line is reported, neither in
\* newLines nor among the lines of the returned content.
C3_NoBlankLineWithSnapshot ==
  DiffWithSnapshot =>
    /\ \A k \in 1..Len(diffOut[1].newLines) : ~IsBlank(diffOut[1].newLines[k])
    /\ diffOut[1].content # <<>> =>
         \A k \in 1..Len(split(diffOut[1].content)) :
           ~IsBlank(split(diffOut[1].content)[k])

\* C3 witness: the current body has a blank line and a new content line.
C3_Witness ==
  /\ DiffWithSnapshot
  /\ \E k \in 1..Len(split(diffNote.body)) : IsBlank(split(diffNote.body)[k])
  /\ Len(diffOut[1].newLines) >= 1

\* C4: the delta is empty (nothing left after trimming, the test aggregateContent
\* applies) iff every trimmed non-empty line of the body is a trimmed non-empty
\* line of the snapshot; a missing snapshot has no lines.
C4_EmptyDeltaIffSubset ==
  DiffDone =>
    LET snapshotLines == IF DiffPrev = Null THEN {} ELSE TrimmedLinesOf(DiffPrev[1].body)
    IN (IsBlank(diffOut[1].content) <=> TrimmedLinesOf(diffNote.body) \subseteq snapshotLines)

\* C4 witness: a body with content that differs from its snapshot body and
\* still has an empty delta.
C4_Witness ==
  /\ DiffWithSnapshot
  /\ diffOut[1].content = <<>>
  /\ TrimmedLinesOf(diffNote.body) # {}
  /\ diffNote.body # DiffPrev[1].body


(* ----------------------- properties of processNotes --------------------- *)
\* A record has new content: a content line that its snapshot does not have
\* (every content line when it has no snapshot).
HasNewLine(note, store) ==
  LET prev == getNoteSnapshot(store, note.name)
  IN IF prev = Null THEN TrimmedLinesOf(note.body) # {}
     ELSE ~(TrimmedLinesOf(note.body) \subseteq TrimmedLinesOf(prev[1].body))

AggDone == aggOut # Null
AggDoc == aggOut[1].aggregatedContent
\* The position in aggNotes of the record that section k was made from.
AggSrc(k) == aggOut[1].order[AggDoc.sections[k].index]
\* The positions of the records that are due a section.
AggDue ==
  {i \in 1..Len(aggNotes) :
     aggNotes[i].modificationDate >= aggCutoff /\ HasNewLine(aggNotes[i], aggStore)}

\* C7 as claimed: with no record, or no record with a new line, the result is
\* the one 'no new content' sentinel.
C7_Original_OneSentinel ==
  AggDone /\ AggDue = {} => AggDoc.sentinel = NoNewContentMsg

\* C7 amended: with nothing to report the result is a non-empty sentinel and
\* never the empty string: NoNotesMsg when no record passes the cutoff,
\* NoNewContentMsg when records pass it and none has a new line.
C7_SentinelWhenNothingNew ==
  AggDone =>
    /\ (AggDoc.sentinel # "" \/ AggDoc.sections # <<>>)
    /\ NoNotesMsg # "" /\ NoNewContentMsg # ""
    /\ AggDue = {} =>
         /\ AggDoc.sections = <<>>
         /\ AggDoc.sentinel =
              IF \A i \in 1..Len(aggNotes) : aggNotes[i].modificationDate < aggCutoff
              THEN NoNotesMsg ELSE NoNewContentMsg

\* C7 witness: records pass the cutoff, all unchanged against their snapshots.
C7_Witness ==
  /\ AggDone /\ AggDue = {}
  /\ \E i \in 1..Len(aggNotes) :
        /\ aggNotes[i].modificationDate >= aggCutoff
        /\ getNoteSnapshot(aggStore, aggNotes[i].name) # Null
        /\ TrimmedLinesOf(aggNotes[i].body) # {}

\* C8: the document has a section for a record iff the record is at or after
\* the cutoff and has a new line: one section per such record, carrying its
\* name and date, and no other section.
C8_SectionIffFreshAndNew ==
  AggDone =>
    /\ {AggSrc(k) : k \in 1..Len(AggDoc.sections)} = AggDue
    /\ Len(AggDoc.sections) = Cardinality(AggDue)
    /\ \A k \in 1..Len(AggDoc.sections) :
         /\ AggDoc.sections[k].name = aggNotes[AggSrc(k)].name
         /\ AggDoc.sections[k].modificationDate = aggNotes[AggSrc(k)].modificationDate

\* C8 witness: a record modified exactly at the cutoff gets a section and
\* another record of the input gets none.
C8_Witness ==
  /\ AggDone /\ Len(AggDoc.sections) >= 1
  /\ \E i \in 1..Len(aggNotes) :
        /\ aggNotes[i].modificationDate = aggCutoff /\ i \in AggDue
  /\ \E i \in 1..Len(aggNotes) : i \notin AggDue

\* C9: the sections are ordered newest first, and records with the same
\* modification time keep their input order.
C9_NewestFirstStable ==
  AggDone =>
    \A j, k \in 1..Len(AggDoc.sections) :
      j < k =>
        \/ aggNotes[AggSrc(j)].modificationDate > aggNotes[AggSrc(k)].modificationDate
        \/ /\ aggNotes[AggSrc(j)].modificationDate = aggNotes[AggSrc(k)].modificationDate
           /\ AggSrc(j) < AggSrc(k)

\* C9 witness: two sections whose records were given oldest first.
C9_Witness ==
  /\ AggDone /\ Len(AggDoc.sections) >= 2
  /\ AggSrc(1) > AggSrc(2)

(* ------------------------- pipeline properties -------------------------- *)
\* The run in flight has not reached its saveSnapshots call.
BeforeSave == pc \in {"processed", "generated", "written", "slacked", "noted", "stored"}

\* The run in flight has written the snapshot file.
StoreChanged == run.kind # "none" /\ snapshotStore # run.storeBefore

\* C5 as stated: a run over the record set whose snapshots the last
\* successful run committed hands no line of any record to the model.
C5_Original_NoResendOfUnchangedSet ==
  (/\ BeforeSave /\ run.llmInput # Null
   /\ committedNotes # Null /\ run.allNotes = committedNotes[1])
  => run.llmInput[1].sections = <<>>

\* C5 witness: the model is handed a section of a record set that is the one
\* just committed.
C5_Witness ==
  /\ pc = "generated" /\ run.kind = "cron"
  /\ committedNotes = Some(run.allNotes)
  /\ Len(run.llmInput[1].sections) = 1
  /\ run.llmInput[1].sections[1].newContent = <<"a">>

\* C6 as stated: generateBrief is never called with a sentinel as its content.
C6_Original_NoSentinelToModel ==
  run.llmInput # Null => run.llmInput[1].sentinel = ""

\* C6 witness: the cron run has called generateBrief with the sentinel of
\* aggregateContent.
C6_Witness ==
  /\ run.kind = "cron" /\ pc = "generated"
  /\ run.llmInput = Some([sentinel |-> NoNewContentMsg, sections |-> <<>>])

\* C10 as stated: the snapshot file is written only after the model call, the
\* file write, the Slack post, the Apple Note and the cloud save have
\* succeeded, and a run that is aborted leaves it as it was.
C10_Original_StoreUpdatedAfterAllSteps ==
  /\ StoreChanged =>
       /\ run.llmInput # Null
       /\ run.slack # "failed"
       /\ run.failed \notin {"generateBrief", "writeDailyBrief", "postDailyBrief",
                             "createDailyBriefNote", "saveNotes"}
  /\ (pc = "done" /\ run.result = "aborted") => ~StoreChanged

\* C10 witness: the cron run has written the snapshot file after its Slack
\* post failed.
C10_Witness ==
  /\ run.kind = "cron" /\ pc = "saved"
  /\ run.slack = "failed" /\ StoreChanged

\* The last position of allNotes that holds a note of this name.
LastNamed(allNotes, n) ==
  CHOOSE i \in 1..Len(allNotes) :
    /\ allNotes[i].name = n
    /\ \A j \in 1..Len(allNotes) : allNotes[j].name = n => j <= i

\* The run in flight has completed its saveSnapshots call.
RunSaved == pc = "saved" \/ (pc = "done" /\ run.result = "ok")

ReadNotWritten(h) == reqs[h].pc \in {"processed", "stored"}

\* C11 as stated: no request reads the snapshot file between another
\* request's read and its write.
C11_Original_OneReaderWriter ==
  ~(ReadNotWritten(1) /\ ReadNotWritten(2))

\* C11 witness: two requests over the same notes have both read the snapshot
\* file before either wrote it, and both hold the same new section.
C11_Witness ==
  /\ ReadNotWritten(1) /\ ReadNotWritten(2)
  /\ reqs[1].allNotes = reqs[2].allNotes
  /\ reqs[1].processed = reqs[2].processed
  /\ Len(reqs[1].processed[1].aggregatedContent.sections) = 1

(* ----------------------- parseResponse properties ----------------------- *)
\* parseResponse has ended, with the outcome recOut[1].
RecDone == recOut # Null

\* The span from the first "{" of the text to the brace that closes it,
\* found as the repair loop finds the end of an object: braces inside string
\* literals and escaped quotes are passed over.  Null when there is none.
BalancedSpan(s) ==
  LET opens == IndexesOf(s, LBRACE)
  IN IF opens = {} THEN Null
     ELSE LET objEnd == findObjEnd(s, Min(opens), PosOf(s, Min(opens)),
                                   Length(s), 0, FALSE, FALSE)
          IN IF objEnd = 0 THEN Null ELSE Some(SubSeq(s, Min(opens), objEnd))

\* C13 as stated: every brief parseResponse returns has a summary that is not
\* empty, and every item of it has a task that is not empty and a priority
\* that is High, Medium or Low.
C13_Original_ShapeContract ==
  (RecDone /\ recOut[1].ok) =>
    /\ recOut[1].brief.executiveSummary # <<>>
    /\ \A i \in 1..Len(recOut[1].brief.actionItems) :
         /\ recOut[1].brief.actionItems[i].task # <<>>
         /\ recOut[1].brief.actionItems[i].priority \in Priorities

\* C13 witness: the response whose executiveSummary is an empty array has
\* been returned as a brief with an empty summary, next to a kept item.
C13_Witness ==
  /\ RecDone /\ recOut[1].ok
  /\ recText = BriefText(<<LBRACK, RBRACK>>, <<PlainItem>>)
  /\ recOut[1].brief.executiveSummary = <<>>
  /\ Len(recOut[1].brief.actionItems) = 1

\* C14 as stated: of a text that holds a brace-balanced object, the span
\* taken for parsing is the first such object, from its "{" to the "}" that
\* closes it.
C14_Original_FirstBalancedSpan ==
  (RecDone /\ BalancedSpan(recText) # Null) =>
    recOut[1].span = BalancedSpan(recText)

\* C14 witness: of a complete brief followed by a space and "}", the span
\* taken runs to that last "}", and parseResponse throws.
C14_Witness ==
  /\ RecDone
  /\ recText = BriefText(GoodSummary, <<>>) \o <<SP, RBRACE>>
  /\ BalancedSpan(recText) = Some(BriefText(GoodSummary, <<>>))
  /\ recOut[1].span = Some(recText)
  /\ ~recOut[1].ok

\* C15 as stated: of a good brief cut inside an item that follows at least
\* one complete item, parseResponse returns a brief with exactly the complete
\* items before the cut, in order, and reports that it repaired the text.
C15_Original_TruncatedMidObject ==
  \A items \in SeqsUpTo(GoodItemTexts, MaxItems) :
    \A n \in 1..(Len(items) - 1) :
      \A k \in 1..(Len(items[n + 1]) - 1) :
        (RecDone /\ recText = CutInItem(items, n, k)) =>
          /\ recOut[1].ok
          /\ recOut[1].repaired
          /\ recOut[1].brief.actionItems
               = normalizeItems([i \in 1..n |-> jsonParse(items[i]).val])

\* C15 witness: on the older engine the brief cut inside its second item
\* has made parseResponse throw from the branch that does not repair.
C15_Witness ==
  /\ RecDone /\ recEngine = "old"
  /\ recText = CutInItem(<<PlainItem, PlainItem>>, 1, 5)
  /\ recOut[1].error = "ParseFailed"

\* C16 as stated: of a well-formed brief with nothing around it, whose
\* summary is a string that is not empty and whose items each have a task
\* and a priority of the three, parseResponse returns that summary and those
\* items in their order.
C16_Original_RoundTrip ==
  \A content \in {<<"s">>, <<"s", COMMA, RBRACK>>} :
    \A items \in SeqsUpTo(GoodItemTexts, MaxItems) :
      (RecDone /\ recText = BriefText(StrText(content), items)) =>
        /\ recOut[1].ok
        /\ recOut[1].brief.executiveSummary = content
        /\ recOut[1].brief.actionItems
             = [i \in 1..Len(items) |->
                  [task |-> getProp(jsonParse(items[i]).val, "task")[1].v,
                   priority |-> getProp(jsonParse(items[i]).val, "priority")[1].v]]

\* C16 witness: the summary "s,]" of a well-formed brief has been returned
\* as "s]".
C16_Witness ==
  /\ RecDone /\ recOut[1].ok
  /\ recText = BriefText(StrText(<<"s", COMMA, RBRACK>>), <<PlainItem>>)
  /\ recOut[1].brief.executiveSummary = <<"s", RBRACK>>

\* C17: parseResponse on a text between a fence marker line and a closing
\* fence marker ends as it ends on the text without the two markers: the same
\* brief or the same error.
C17_FencedSameAsUnfenced ==
  (RecDone /\ IsFenced(recText)) =>
    recOut[1] = parseResponse(recEngine, Unfenced(recText))

\* C17 witness: the fenced brief with two items has been returned as the
\* brief with these items.
C17_Witness ==
  /\ RecDone /\ recOut[1].ok
  /\ recText = Fenced(BriefText(GoodSummary, <<PlainItem, BraceItem>>))
  /\ recOut[1].brief.executiveSummary = <<"s">>
  /\ recOut[1].brief.actionItems
       = <<[task |-> <<"t">>, priority |-> <<"High">>],
           [task |-> <<"u", RBRACE>>, priority |-> <<"Low">>]>>

\* C18: on a text in which no "{" is followed by a "}", parseResponse throws
\* the error of no JSON found and has called JSON.parse not once.
C18_NoStructureNoParse ==
  (/\ RecDone
   /\ ~\E i, j \in 1..Len(recText) :
         i < j /\ recText[i] = LBRACE /\ recText[j] = RBRACE)
  => (/\ ~recOut[1].ok
      /\ recOut[1].error = "NoJSON"
      /\ recOut[1].span = Null
      /\ recOut[1].parses = 0)

\* C18 witness: the fenced text that holds "{" and no "}" has ended in the
\* error of no JSON found.
C18_Witness ==
  /\ RecDone /\ recText = Fenced(<<LBRACE>>)
  /\ recOut[1].error = "NoJSON" /\ recOut[1].parses = 0

\* C19 as stated: every error parseResponse throws is one of no structure
\* found, truncated and not repairable, and invalid shape.
C19_Original_ThreeTypedFailures ==
  (RecDone /\ ~recOut[1].ok) =>
    recOut[1].error \in {"NoJSON", "Truncated", "TruncatedNoItems", "InvalidStructure"}

\* C19: parseResponse ends either with a brief or with one error, of one of
\* five kinds.  No JSON found: there is no span.  Truncated: the strict
\* parse of the span failed at a position within the tail window and the
\* repair found no item or its text did not parse.  Parse failed: the strict
\* parse failed with no position in its message or at a position before the
\* tail window, and the parse after the second removal of commas failed too.
\* Invalid structure, and the TypeError of an item that is null: a parse
\* succeeded.
C19_OneOutcomeOfFiveFailures ==
  RecDone =>
    LET out == recOut[1]
        strict == jsonParse(removeTrailingCommas(out.span[1]))
        errorPos == errorPosOf(recEngine, strict)
        inTail == looksTruncated(errorPos, removeTrailingCommas(out.span[1]))
    IN /\ out.ok <=> out.error = ""
       /\ ~out.ok => out.brief = NoBrief
       /\ out.error \in {"", "NoJSON", "Truncated", "TruncatedNoItems",
                         "ParseFailed", "InvalidStructure", "TypeError"}
       /\ out.error = "NoJSON" <=> out.span = Null
       /\ out.span # Null =>
            /\ out.error \in {"Truncated", "TruncatedNoItems"} => (~strict.ok /\ inTail)
            /\ out.error = "ParseFailed" <=> (~strict.ok /\ ~inTail)
            /\ (strict.ok /\ ~out.ok) => out.error \in {"InvalidStructure", "TypeError"}

\* C19 witness: on the newer engine the brief whose summary is a bare word
\* has ended in the error of the branch that does not repair.
C19_Witness ==
  /\ RecDone /\ recEngine = "new"
  /\ recText = BriefText(<<"note">>, <<PlainItem, PlainItem>>)
  /\ ~recOut[1].ok /\ recOut[1].error = "ParseFailed"

\* C20 as stated: when the span parses, a brief is returned only if the
\* parsed executiveSummary is a string that is not empty and the parsed
\* actionItems is an array, and every other parsed object ends in the error
\* of invalid structure.
C20_Original_ShapeValidation ==
  (RecDone /\ recOut[1].span # Null) =>
    LET strict == jsonParse(removeTrailingCommas(recOut[1].span[1]))
        summary == getProp(strict.val, "executiveSummary")
        goodShape == /\ summary # Null /\ summary[1].t = "str" /\ summary[1].v # <<>>
                     /\ isArray(getProp(strict.val, "actionItems"))
    IN strict.ok =>
         /\ recOut[1].ok => goodShape
         /\ ~goodShape => recOut[1].error = "InvalidStructure"

\* C20 witness: the brief whose executiveSummary is the literal true has
\* been returned with the summary "true".
C20_Witness ==
  /\ RecDone /\ recOut[1].ok
  /\ recText = BriefText(<<"true">>, <<>>)
  /\ recOut[1].brief.executiveSummary = <<"true">>

\* C21 as stated: of a brief with a good summary, parseResponse returns the
\* elements of actionItems that have a task text, in their order, each with
\* its priority when that is High, Medium or Low and with Medium when not;
\* an element without a task text is left out and the call does not throw,
\* also when no element is left.
C21_Original_ItemsSanitized ==
  \A items \in SeqsUpTo(RecItemTexts \cup {<<"null">>}, MaxItems) :
    (RecDone /\ recText = BriefText(GoodSummary, items)) =>
      LET value(i) == jsonParse(items[i]).val
          task(i) == getProp(value(i), "task")
          given(i) == getProp(value(i), "priority")
          HasTask(i) == task(i) # Null /\ task(i)[1].t = "str" /\ task(i)[1].v # <<>>
          kept == SelectSeq([i \in 1..Len(items) |-> i], HasTask)
      IN /\ recOut[1].ok
         /\ recOut[1].brief.actionItems
              = [k \in 1..Len(kept) |->
                   [task |-> task(kept[k])[1].v,
                    priority |->
                      IF given(kept[k]) # Null /\ given(kept[k])[1].v \in Priorities
                      THEN given(kept[k])[1].v ELSE <<"Medium">>]]

\* C21 witness: the brief whose actionItems are null and a plain item has
\* made parseResponse throw the TypeError.
C21_Witness ==
  /\ RecDone
  /\ recText = BriefText(GoodSummary, <<<<"null">>, PlainItem>>)
  /\ ~recOut[1].ok /\ recOut[1].error = "TypeError"

\* C22: a step that leaves a request whose apiKey is missing or is not the
\* configured key in flight has answered it with 401: no notes were
\* extracted or processed, and the cloud storage, the snapshot file and the
\* last-run file are as they were; so every request that is past its first
\* step carries the configured key.
C22_UnauthorizedDoesNothing ==
  [][(run'.kind = "api" /\ run'.key # ApiKey) =>
       /\ pc' = "done" /\ run'.result = "unauthorized"
       /\ run'.allNotes = <<>> /\ run'.processed = Null
       /\ UNCHANGED <<snapshotStore, cloud, lastRun>>]_vars

\* C22 witness: a request with a wrong key has been answered with 401 while
\* a snapshot file exists, and the file is the one from before the request.
C22_Witness ==
  /\ pc = "done" /\ run.kind = "api" /\ run.key = "wrong"
  /\ run.result = "unauthorized"
  /\ snapshotStore # Null /\ snapshotStore = run.storeBefore

\* A cron run or a request has just called processNotes.
JustProcessed == pc = "processed" /\ run.kind \in {"cron", "api"}

EnteredRepair ==
  recOut[1].repaired \/ recOut[1].error \in {"Truncated", "TruncatedNoItems"}

\* C25: the truncated branch is entered exactly when the strict parse of the
\* span without its trailing commas fails with a message that has a position
\* and that position is at most 50 characters before the end of that text; a
\* failure with an earlier position or with no position returns no repaired
\* brief and throws none of the errors of the truncated branch.
C25_RepairOnlyInTailWindow ==
  (RecDone /\ recOut[1].span # Null) =>
    LET jsonString == removeTrailingCommas(recOut[1].span[1])
        strict == jsonParse(jsonString)
        inTail == /\ hasPosition(recEngine, strict.kind)
                  /\ strict.pos >= Length(jsonString) - TailWindow
    IN /\ EnteredRepair <=> (~strict.ok /\ inTail)
       /\ (~strict.ok /\ ~inTail) =>
            (~recOut[1].repaired /\ recOut[1].parses = 2)

\* C25 witness: on the older engine the brief whose summary is a bare word,
\* an error more than 50 characters before the end, has ended in the error
\* of the other branch after two parses.
C25_Witness ==
  /\ RecDone /\ recEngine = "old"
  /\ recText = BriefText(<<"note">>, <<PlainItem, PlainItem>>)
  /\ jsonParse(recText).pos < Length(recText) - TailWindow
  /\ recOut[1].error = "ParseFailed" /\ recOut[1].parses = 2

\* C26 as stated: of a brief followed by a stray "}", which is repaired, the
\* items returned are those before the first item that lacks the task key or
\* the priority key.
C26_Original_ScanStopsAtWrongShape ==
  \A items \in RecItemLists :
    (/\ RecDone /\ recOut[1].repaired
     /\ recText = BriefText(GoodSummary, items) \o <<SP, RBRACE>>)
    => LET HasKeys(i) == /\ includes(items[i], <<QUOTE, "task", QUOTE>>)
                         /\ includes(items[i], <<QUOTE, "priority", QUOTE>>)
           firstBad == Min({i \in 1..Len(items) : ~HasKeys(i)} \cup {Len(items) + 1})
       IN recOut[1].brief.actionItems
            = normalizeItems([i \in 1..(firstBad - 1) |-> jsonParse(items[i]).val])

\* C26 witness: the repair has returned the plain item that follows an item
\* without a priority key.
C26_Witness ==
  /\ RecDone /\ recOut[1].repaired
  /\ recText = BriefText(GoodSummary,
                         <<ObjText(<<MemberText("task", StrText(<<"v">>))>>), PlainItem>>)
                 \o <<SP, RBRACE>>
  /\ recOut[1].brief.actionItems = <<[task |-> <<"t">>, priority |-> <<"High">>]>>

\* C27: when the truncated branch is entered and the actionItems array is
\* not found, or no complete item is found, or the rebuilt text does not
\* parse, parseResponse throws an error of the truncated branch and returns
\* no brief.
C27_RepairFailureIsTruncated ==
  (RecDone /\ recOut[1].span # Null) =>
    LET jsonString == removeTrailingCommas(recOut[1].span[1])
        strict == jsonParse(jsonString)
        inTail == /\ hasPosition(recEngine, strict.kind)
                  /\ strict.pos >= Length(jsonString) - TailWindow
        actionItemsStart == indexOf(jsonString, <<QUOTE, "actionItems", QUOTE>>, 1)
        arrayStart == IF actionItemsStart = 0 THEN 0
                      ELSE indexOf(jsonString, <<LBRACK>>, actionItemsStart)
        matches == collectItems(jsonString, arrayStart + 1, strict.pos, <<>>)
    IN (~strict.ok /\ inTail) =>
         /\ arrayStart = 0 =>
              (~recOut[1].ok /\ recOut[1].error = "Truncated" /\ recOut[1].brief = NoBrief)
         /\ (arrayStart # 0 /\ matches = <<>>) =>
              (~recOut[1].ok /\ recOut[1].error = "TruncatedNoItems"
               /\ recOut[1].brief = NoBrief)
         /\ (arrayStart # 0 /\ matches # <<>>
             /\ ~jsonParse(fixedJson(jsonString, arrayStart, matches)).ok) =>
              (~recOut[1].ok /\ recOut[1].error = "Truncated" /\ recOut[1].brief = NoBrief)

\* C27 witness: a brief without items followed by a stray "}" has entered
\* the truncated branch and ended in its error of no complete item.
C27_Witness ==
  /\ RecDone
  /\ recText = BriefText(GoodSummary, <<>>) \o <<SP, RBRACE>>
  /\ ~recOut[1].ok /\ recOut[1].error = "TruncatedNoItems"
  /\ recOut[1].parses = 1

\* C28 as stated: of an object that parses as it is, parseResponse returns
\* what the validation of that parse gives, string values unchanged; and of
\* the same object with a comma before its last "]" it returns the same
\* brief or throws the same error.
C28_Original_OnlyStructuralCommas ==
  \A text \in RecObjects :
    LET asIs == jsonParse(text)
        expected == validate(asIs.val, Some(text), 1, FALSE)
    IN (RecDone /\ asIs.ok) =>
         /\ recText = text => recOut[1] = expected
         /\ (IndexesOf(text, RBRACK) # {} /\ recText = WithTrailingComma(text)) =>
              /\ recOut[1].ok = expected.ok
              /\ recOut[1].error = expected.error
              /\ recOut[1].brief = expected.brief

\* C28 witness: of the brief with the summary "s,]" and a comma after its
\* one item, the brief returned has that item and the summary "s]".
C28_Witness ==
  /\ RecDone /\ recOut[1].ok
  /\ recText = WithTrailingComma(BriefText(StrText(<<"s", COMMA, RBRACK>>), <<PlainItem>>))
  /\ recOut[1].brief.executiveSummary = <<"s", RBRACK>>
  /\ recOut[1].brief.actionItems = <<[task |-> <<"t">>, priority |-> <<"High">>]>>

\* C29: in a call that entered the truncated branch, for every "{" of the
\* text at which a JSON object starts, the loop that looks for the end of the
\* object reports the brace that closes that object, whatever braces and
\* escaped quotes its string values hold; and for every "{" whose object the
\* text ends inside, it reports no end.
C29_BraceCounterFindsMatchingBrace ==
  (RecDone /\ recOut[1].span # Null /\ EnteredRepair) =>
    LET jsonString == removeTrailingCommas(recOut[1].span[1])
        errorPos == jsonParse(jsonString).pos
    IN \A i \in IndexesOf(jsonString, LBRACE) :
         LET object == parseValue(jsonString, i)
             objEnd == findObjEnd(jsonString, i, PosOf(jsonString, i), errorPos, 0, FALSE, FALSE)
         IN /\ object.ok => objEnd = object.next - 1
            /\ (~object.ok /\ object.kind \in {"eos", "expected", "unterminated"})
                 => objEnd = 0

\* C29 witness: the repair has returned the item whose task holds an escaped
\* quote and a "}".
C29_Witness ==
  /\ RecDone /\ recOut[1].ok /\ recOut[1].repaired
  /\ recText = BriefText(GoodSummary, <<EscItem>>) \o <<SP, RBRACE>>
  /\ findObjEnd(recText, Min(IndexesOf(recText, LBRACK)) + 1,
                PosOf(recText, Min(IndexesOf(recText, LBRACK)) + 1),
                jsonParse(recText).pos, 0, FALSE, FALSE) = Len(recText) - 4
  /\ recOut[1].brief.actionItems
       = <<[task |-> <<"u", QUOTE, RBRACE>>, priority |-> <<"Low">>]>>

(* ------------------------- saveSnapshots, C30 --------------------------- *)
\* The names of the notes in a list.
NamesOf(notes) == {notes[i].name : i \in 1..Len(notes)}

SnapSaved == pc \in {"saved", "done"}
SnapDiffed == pc = "done"

\* C30: after saveSnapshots returns, the file holds a snapshot for exactly
\* the names of the notes passed in, the last note in input order for each
\* name; and a note whose name was not passed in is then diffed as first
\* sight, extractNewContent returning its whole body.
C30_Original_SaveReplacesStore ==
  /\ SnapSaved =>
       /\ diffStore # Null
       /\ DOMAIN diffStore[1].notes = NamesOf(aggNotes)
       /\ \A n \in NamesOf(aggNotes) :
            diffStore[1].notes[n] = aggNotes[LastNamed(aggNotes, n)]
  /\ (SnapDiffed /\ diffNote.name \notin NamesOf(aggNotes)) =>
       /\ ~diffOut[1].threw
       /\ diffOut[1].firstSight
       /\ diffOut[1].content = diffNote.body

\* A file that held a snapshot of A is replaced by one written from two B
\* notes, the second one is kept, and A is then diffed as first sight.
C30_Witness ==
  /\ SnapDiffed
  /\ Len(aggNotes) = 2
  /\ NamesOf(aggNotes) = {"B"}
  /\ aggNotes[1].body # aggNotes[2].body
  /\ DOMAIN diffStore[1].notes = {"B"}
  /\ diffStore[1].notes["B"] = aggNotes[2]
  /\ diffNote.name = "A"
  /\ diffOut[1].firstSight
  /\ diffOut[1].content = diffNote.body

====
